---- MODULE Spec2Model ----
(***************************************************************************)
(* A model of rift's naming and reconciliation pipeline:                   *)
(*   naming.BuildState      (internal/naming/naming.go)                    *)
(*   state.State.Normalize  (internal/state)                               *)
(*   awsconfig.Sync         (internal/awsconfig/manager.go)                *)
(*   kubeconfig.Sync        (internal/kubeconfig/manager.go)               *)
(*   cli.App.RunSync        (internal/cli)                                 *)
(*                                                                         *)
(* Go strings are modelled as sequences of byte values, so that the byte-  *)
(* wise comparison of sort keys, prefix tests, lower-casing and the slug   *)
(* regular expression are computed as the code computes them.              *)
(***************************************************************************)
EXTENDS Integers, Sequences, FiniteSets, TLC

(***************************************************************************)
(* Strings                                                                 *)
(***************************************************************************)

\* The printable ASCII characters in code order; Ascii[i] has byte value i + 31
\* (byte 96 is listed by name).
Ascii ==
  << " ", "!", "\"", "#", "$", "%", "&", "'", "(", ")", "*", "+", ",", "-", ".", "/",
     "0", "1", "2", "3", "4", "5", "6", "7", "8", "9", ":", ";", "<", "=", ">", "?",
     "@", "A", "B", "C", "D", "E", "F", "G", "H", "I", "J", "K", "L", "M", "N", "O",
     "P", "Q", "R", "S", "T", "U", "V", "W", "X", "Y", "Z", "[", "\\", "]", "^", "_",
     "GRAVE", "a", "b", "c", "d", "e", "f", "g", "h", "i", "j", "k", "l", "m", "n", "o",
     "p", "q", "r", "s", "t", "u", "v", "w", "x", "y", "z", "{", "|", "}", "~" >>

ord == [c \in {Ascii[i] : i \in 1..Len(Ascii)} |->
          31 + (CHOOSE i \in 1..Len(Ascii) : Ascii[i] = c)]

\* A Go string literal, written as a tuple of its characters.
S(t) == [i \in 1..Len(t) |-> ord[t[i]]]

Min(a, b) == IF a < b THEN a ELSE b

\* the set of the elements of a sequence
Range(s) == {s[i] : i \in 1..Len(s)}

\* Go's < on strings: byte-wise lexicographic order.
StrLess(a, b) ==
  \E i \in 1..(Min(Len(a), Len(b)) + 1) :
    /\ \A j \in 1..(i - 1) : a[j] = b[j]
    /\ IF i > Len(a) THEN i <= Len(b)
       ELSE i <= Len(b) /\ a[i] < b[i]

\* strings.HasPrefix
HasPrefix(s, p) == Len(p) <= Len(s) /\ SubSeq(s, 1, Len(p)) = p

\* strings.HasSuffix
HasSuffix(s, x) == Len(x) <= Len(s) /\ SubSeq(s, Len(s) - Len(x) + 1, Len(s)) = x

\* strings.TrimPrefix
TrimPrefix(s, p) == IF HasPrefix(s, p) THEN SubSeq(s, Len(p) + 1, Len(s)) ELSE s

\* strings.Contains
Contains(s, sub) ==
  \E i \in 1..(Len(s) - Len(sub) + 1) : SubSeq(s, i, i + Len(sub) - 1) = sub

\* strings.ToLower on ASCII
ToLower(s) == [i \in 1..Len(s) |-> IF s[i] >= 65 /\ s[i] <= 90 THEN s[i] + 32 ELSE s[i]]

\* strings.Trim(s, cutset) for a cutset given as a set of byte values
RECURSIVE TrimLeft(_, _)
TrimLeft(s, cut) ==
  IF s # <<>> /\ Head(s) \in cut THEN TrimLeft(Tail(s), cut) ELSE s

RECURSIVE TrimRight(_, _)
TrimRight(s, cut) ==
  IF s # <<>> /\ s[Len(s)] \in cut THEN TrimRight(SubSeq(s, 1, Len(s) - 1), cut) ELSE s

Trim(s, cut) == TrimRight(TrimLeft(s, cut), cut)

\* strings.TrimSpace: the ASCII white space (tab, LF, VT, FF, CR, space)
WhiteSpace == {9, 10, 11, 12, 13, 32}

TrimSpace(s) == Trim(s, WhiteSpace)

\* strings.Join
RECURSIVE Join(_, _)
Join(parts, sep) ==
  IF parts = <<>> THEN <<>>
  ELSE IF Len(parts) = 1 THEN parts[1]
  ELSE parts[1] \o sep \o Join(Tail(parts), sep)

\* fmt's %d for a non-negative integer
RECURSIVE Itoa(_)
Itoa(n) == IF n < 10 THEN <<48 + n>> ELSE Itoa(n \div 10) \o <<48 + (n % 10)>>

Bar == S(<<"|">>)
Dash == S(<<"-">>)
Space == S(<<" ">>)
Unknown == S(<<"u", "n", "k", "n", "o", "w", "n">>)
RiftDash == S(<<"r", "i", "f", "t", "-">>)

(***************************************************************************)
(* internal/naming: Slug, InferEnv, uniqueNamer                            *)
(***************************************************************************)

\* nonSlugRegex is [^a-z0-9]+ : the bytes it does NOT match
IsSlugByte(b) == (b >= 97 /\ b <= 122) \/ (b >= 48 /\ b <= 57)

\* a replacement of every byte outside [a-z0-9] by a hyphen of its own
RECURSIVE ReplaceNonSlugEachByte(_)
ReplaceNonSlugEachByte(s) ==
  IF s = <<>> THEN <<>>
  ELSE IF IsSlugByte(Head(s)) THEN <<Head(s)>> \o ReplaceNonSlugEachByte(Tail(s))
  ELSE Dash \o ReplaceNonSlugEachByte(Tail(s))

\* nonSlugRegex.ReplaceAllString(s, "-"): every maximal run of non-slug bytes
\* becomes one hyphen
RECURSIVE ReplaceNonSlug(_)
ReplaceNonSlug(s) ==
  IF s = <<>> THEN <<>>
  ELSE IF IsSlugByte(Head(s)) THEN <<Head(s)>> \o ReplaceNonSlug(Tail(s))
  ELSE IF Len(s) >= 2 /\ ~IsSlugByte(s[2]) THEN ReplaceNonSlug(Tail(s))
  ELSE Dash \o ReplaceNonSlug(Tail(s))

Slug(input) ==
  LET s == Trim(ReplaceNonSlug(ToLower(TrimSpace(input))), {45})
  IN  IF s = <<>> THEN Unknown ELSE s

EnvProd == S(<<"p", "r", "o", "d">>)
EnvStaging == S(<<"s", "t", "a", "g", "i", "n", "g">>)
EnvStage == S(<<"s", "t", "a", "g", "e">>)
EnvDevelopment == S(<<"d", "e", "v", "e", "l", "o", "p", "m", "e", "n", "t">>)
EnvDev == S(<<"d", "e", "v">>)
EnvIntegration == S(<<"i", "n", "t", "e", "g", "r", "a", "t", "i", "o", "n">>)
EnvInt == S(<<"i", "n", "t">>)
EnvOther == S(<<"o", "t", "h", "e", "r">>)
EnvStg == S(<<"s", "t", "g">>)

\* the tests for dev before those for staging
InferEnvDevBeforeStaging(parts) ==
  LET combined == ToLower(Join(parts, Space))
  IN  IF Contains(combined, EnvProd) THEN EnvProd
      ELSE IF Contains(combined, EnvDevelopment) \/ Contains(combined, EnvDev) THEN EnvDev
      ELSE IF Contains(combined, EnvStaging) \/ Contains(combined, EnvStage) THEN EnvStaging
      ELSE IF Contains(combined, EnvIntegration) \/ Contains(combined, EnvInt) THEN EnvInt
      ELSE EnvOther

InferEnv(parts) ==
  LET combined == ToLower(Join(parts, Space))
  IN  IF Contains(combined, EnvProd) THEN EnvProd
      ELSE IF Contains(combined, EnvStaging) \/ Contains(combined, EnvStage) THEN EnvStaging
      ELSE IF Contains(combined, EnvDevelopment) \/ Contains(combined, EnvDev) THEN EnvDev
      ELSE IF Contains(combined, EnvIntegration) \/ Contains(combined, EnvInt) THEN EnvInt
      ELSE EnvOther

\* A Go map[string]T as a function on the set of its keys.
MapGet(m, k, zero) == IF k \in DOMAIN m THEN m[k] ELSE zero

MapPut(m, k, v) == [x \in (DOMAIN m) \cup {k} |-> IF x = k THEN v ELSE m[x]]

MapDelete(m, k) == [x \in (DOMAIN m) \ {k} |-> m[x]]

EmptyMap == [x \in {} |-> 0]

\* newUniqueNamer: an empty count map
newUniqueNamer == EmptyMap

\* uniqueNamer.next with the suffix taken from the count before the increment
nextOffByOne(counts, base0) ==
  LET base == Slug(base0)
      n    == MapGet(counts, base, 0) + 1
  IN  [counts |-> MapPut(counts, base, n),
       name   |-> IF n = 1 THEN base ELSE base \o Dash \o Itoa(n - 1)]

\* uniqueNamer.next with one counter for all base names
nextSharedCount(counts, base0) ==
  LET base == Slug(base0)
      n    == MapGet(counts, <<>>, 0) + 1
  IN  [counts |-> MapPut(counts, <<>>, n),
       name   |-> IF n = 1 THEN base ELSE base \o Dash \o Itoa(n)]

\* uniqueNamer.next: the new count map and the allocated name
next(counts, base0) ==
  LET base == Slug(base0)
      n    == MapGet(counts, base, 0) + 1
  IN  [counts |-> MapPut(counts, base, n),
       name   |-> IF n = 1 THEN base ELSE base \o Dash \o Itoa(n)]

(***************************************************************************)
(* sort.Slice                                                              *)
(***************************************************************************)

\* sort.Slice on a slice of at most 12 elements is an insertion sort (Go 1.22
\* pdqsort, maxInsertion = 12), which keeps elements with equal keys in their
\* input order.  The less function of every call site compares joined string
\* keys, so the slice is sorted as pairs of key and element.
RECURSIVE insertByKey(_, _)
insertByKey(sorted, x) ==
  IF sorted = <<>> \/ ~StrLess(x.key, sorted[Len(sorted)].key)
  THEN Append(sorted, x)
  ELSE Append(insertByKey(SubSeq(sorted, 1, Len(sorted) - 1), x), sorted[Len(sorted)])

RECURSIVE insertionSort(_, _)
insertionSort(pairs, n) ==
  IF n = 0 THEN <<>> ELSE insertByKey(insertionSort(pairs, n - 1), pairs[n])

SortSlice(items, keys) ==
  LET pairs  == [i \in 1..Len(items) |-> [key |-> keys[i], val |-> items[i]]]
      sorted == insertionSort(pairs, Len(pairs))
  IN  [i \in 1..Len(items) |-> sorted[i].val]

(***************************************************************************)
(* internal/config: Config.NamespaceForEnv                                 *)
(***************************************************************************)

NamespaceForEnv(cfg, env) ==
  LET key == ToLower(TrimSpace(env))
  IN  IF key = <<>> THEN <<>>
      ELSE IF TrimSpace(MapGet(cfg.NamespaceDefaults, key, <<>>)) # <<>>
           THEN TrimSpace(MapGet(cfg.NamespaceDefaults, key, <<>>))
      ELSE IF key = EnvStaging THEN TrimSpace(MapGet(cfg.NamespaceDefaults, EnvStg, <<>>))
      ELSE IF key = EnvStg THEN TrimSpace(MapGet(cfg.NamespaceDefaults, EnvStaging, <<>>))
      ELSE <<>>

(***************************************************************************)
(* internal/state: State.Normalize                                         *)
(***************************************************************************)

roleNormalizeKey(r) == Join(<<r.Env, r.AccountName, r.RoleName>>, Bar)

clusterNormalizeKey(c) ==
  Join(<<c.Env, c.AccountName, c.RoleName, c.Region, c.ClusterName>>, Bar)

Normalize(s) ==
  [s EXCEPT
     !.Roles    = SortSlice(s.Roles, [i \in 1..Len(s.Roles) |-> roleNormalizeKey(s.Roles[i])]),
     !.Clusters = SortSlice(s.Clusters,
                            [i \in 1..Len(s.Clusters) |-> clusterNormalizeKey(s.Clusters[i])])]

(***************************************************************************)
(* internal/naming: BuildState                                             *)
(***************************************************************************)

\* the less function of the role pre-sort compares these joined keys
rolePreSortKey(r) == Join(<<r.AccountName, r.AccountID, r.RoleName>>, Bar)

\* the less function of the cluster pre-sort compares these joined keys
clusterPreSortKey(c) == Join(<<c.AccountName, c.RoleName, c.Region, c.ClusterName>>, Bar)

preSortRoles(roles) ==
  SortSlice(roles, [i \in 1..Len(roles) |-> rolePreSortKey(roles[i])])

preSortClusters(clusters) ==
  SortSlice(clusters, [i \in 1..Len(clusters) |-> clusterPreSortKey(clusters[i])])

\* accountSlug: the slug of the account name, or of the account ID when the
\* name slugs to "unknown"
accountSlugOf(x) ==
  IF Slug(x.AccountName) = Unknown THEN Slug(x.AccountID) ELSE Slug(x.AccountName)

\* fmt.Sprintf("rift-%s-%s-%s", env, accountSlug, lastSlug)
baseName(env, accountSlug, lastSlug) ==
  RiftDash \o env \o Dash \o accountSlug \o Dash \o lastSlug

roleEnv(role) == InferEnv(<<role.AccountName, role.RoleName>>)

roleBase(role) == baseName(roleEnv(role), accountSlugOf(role), Slug(role.RoleName))

clusterEnv(cluster) == InferEnv(<<cluster.AccountName, cluster.RoleName, cluster.ClusterName>>)

contextBase(cluster) ==
  baseName(clusterEnv(cluster), accountSlugOf(cluster), Slug(cluster.ClusterName))

\* the profile base of a role synthesized from a cluster: env is the cluster's
synthBase(cluster) ==
  baseName(clusterEnv(cluster), accountSlugOf(cluster), Slug(cluster.RoleName))

roleKey(x) == x.AccountID \o Bar \o x.RoleName

RoleRecord(env, x, profile) ==
  [Env |-> env, AccountID |-> x.AccountID, AccountName |-> x.AccountName,
   RoleName |-> x.RoleName, RoleSlug |-> Slug(x.RoleName), AWSProfile |-> profile]

\* the loop over the sorted inv.Roles
RECURSIVE roleLoop(_, _)
roleLoop(sortedRoles, n) ==
  IF n = 0
  THEN [profileNamer |-> newUniqueNamer, roleKeyToProfile |-> EmptyMap, roles |-> <<>>]
  ELSE LET acc  == roleLoop(sortedRoles, n - 1)
           role == sortedRoles[n]
           nx   == next(acc.profileNamer, roleBase(role))
       IN  [profileNamer     |-> nx.counts,
            roleKeyToProfile |-> MapPut(acc.roleKeyToProfile, roleKey(role), nx.name),
            roles            |-> Append(acc.roles, RoleRecord(roleEnv(role), role, nx.name))]

ClusterRecord(cfg, cluster, profile, context) ==
  LET env       == clusterEnv(cluster)
      namespace == NamespaceForEnv(cfg, env)
  IN  [Env |-> env, AccountID |-> cluster.AccountID, AccountName |-> cluster.AccountName,
       RoleName |-> cluster.RoleName, AWSProfile |-> profile, Region |-> cluster.Region,
       ClusterName |-> cluster.ClusterName, ClusterARN |-> cluster.ClusterARN,
       ClusterEndpoint |-> cluster.ClusterEndpoint,
       ClusterCertificateBase64 |-> cluster.ClusterCertificateBase64,
       KubeContext |-> context, Namespace |-> namespace,
       Namespaces |-> IF namespace # <<>> THEN <<namespace>> ELSE <<>>]

\* the loop over the sorted inv.Clusters, started from the result of the role loop
RECURSIVE clusterLoop(_, _, _, _)
clusterLoop(cfg, sortedClusters, n, start) ==
  IF n = 0
  THEN [profileNamer |-> start.profileNamer, contextNamer |-> newUniqueNamer,
        roleKeyToProfile |-> start.roleKeyToProfile, roles |-> start.roles,
        clusters |-> <<>>]
  ELSE LET acc     == clusterLoop(cfg, sortedClusters, n - 1, start)
           cluster == sortedClusters[n]
           ctx     == next(acc.contextNamer, contextBase(cluster))
           known   == MapGet(acc.roleKeyToProfile, roleKey(cluster), <<>>)
           synth   == next(acc.profileNamer, synthBase(cluster))
           profile == IF known = <<>> THEN synth.name ELSE known
       IN  [profileNamer     |-> IF known = <<>> THEN synth.counts ELSE acc.profileNamer,
            contextNamer     |-> ctx.counts,
            roleKeyToProfile |-> IF known = <<>>
                                 THEN MapPut(acc.roleKeyToProfile, roleKey(cluster), profile)
                                 ELSE acc.roleKeyToProfile,
            roles            |-> IF known = <<>>
                                 THEN Append(acc.roles,
                                             RoleRecord(clusterEnv(cluster), cluster, profile))
                                 ELSE acc.roles,
            clusters         |-> Append(acc.clusters,
                                        ClusterRecord(cfg, cluster, profile, ctx.name))]

dedupeKeyWithoutProfile(role) == role.AccountID \o Bar \o role.RoleName

dedupeKey(role) == role.AccountID \o Bar \o role.RoleName \o Bar \o role.AWSProfile

RECURSIVE dedupeRoles(_)
dedupeRoles(roles) ==
  IF roles = <<>> THEN <<>>
  ELSE LET front == dedupeRoles(SubSeq(roles, 1, Len(roles) - 1))
           role  == roles[Len(roles)]
       IN  IF \E i \in 1..Len(front) : dedupeKey(front[i]) = dedupeKey(role)
           THEN front
           ELSE Append(front, role)

BuildState(cfg, inv) ==
  LET sortedRoles    == preSortRoles(inv.Roles)
      afterRoles     == roleLoop(sortedRoles, Len(sortedRoles))
      sortedClusters == preSortClusters(inv.Clusters)
      afterClusters  == clusterLoop(cfg, sortedClusters, Len(sortedClusters), afterRoles)
  IN  Normalize([GeneratedAt |-> inv.GeneratedAt,
                 Regions     |-> cfg.Regions,
                 Roles       |-> dedupeRoles(afterClusters.roles),
                 Clusters    |-> afterClusters.clusters])

(***************************************************************************)
(* Inputs                                                                  *)
(***************************************************************************)

RoleAccess(id, account, role) ==
  [AccountID |-> id, AccountName |-> account, RoleName |-> role]

ClusterAccess(id, account, role, region, name, arn, endpoint, cert) ==
  [AccountID |-> id, AccountName |-> account, RoleName |-> role, Region |-> region,
   ClusterName |-> name, ClusterARN |-> arn, ClusterEndpoint |-> endpoint,
   ClusterCertificateBase64 |-> cert]

Acme == S(<<"a", "c", "m", "e">>)
Id1 == S(<<"1">>)
Id2 == S(<<"2">>)
RoleAdminUpper == S(<<"A", "d", "m", "i", "n">>)
RoleAdminLower == S(<<"a", "d", "m", "i", "n">>)
RoleAdmin2 == S(<<"a", "d", "m", "i", "n", "-", "2">>)
RoleOps == S(<<"o", "p", "s">>)
RegionUs1 == S(<<"u", "s", "1">>)
ClusterWebUpper == S(<<"W", "e", "b">>)
ClusterWebLower == S(<<"w", "e", "b">>)
ClusterDev == S(<<"d", "e", "v">>)
Arn1 == S(<<"a", "r", "n", ":", "1">>)
Arn2 == S(<<"a", "r", "n", ":", "2">>)
Endpoint1 == S(<<"h", "t", "t", "p", "s", ":", "/", "/", "e", "1">>)
Endpoint2 == S(<<"h", "t", "t", "p", "s", ":", "/", "/", "e", "2">>)
CertA == S(<<"Q", "Q", "=", "=">>)
CertRaw == S(<<"-", "p", "e", "m", "-">>)
StartURL == S(<<"h", "t", "t", "p", "s", ":", "/", "/", "s", "s", "o">>)
NsApps == S(<<"a", "p", "p", "s">>)
OldURL == S(<<"o", "l", "d">>)

\* two roles with the same base name and a role whose base name is that base
\* name followed by "-2"
RolePool ==
  { RoleAccess(Id1, Acme, RoleAdminUpper),
    RoleAccess(Id1, Acme, RoleAdminLower),
    RoleAccess(Id1, Acme, RoleAdmin2) }

\* two clusters that agree on everything but the account ID (the role of the
\* second is in no role list) and a cluster of another role that is in no role
\* list
ClusterPool ==
  { ClusterAccess(Id1, Acme, RoleAdminUpper, RegionUs1, ClusterWebUpper, Arn1, Endpoint1, CertA),
    ClusterAccess(Id2, Acme, RoleAdminUpper, RegionUs1, ClusterWebUpper, Arn2, Endpoint2, CertRaw),
    ClusterAccess(Id1, Acme, RoleOps, RegionUs1, ClusterDev, Arn2, <<>>, <<>>) }

\* config.Config values as config.Load returns them (normalized and valid)
Configs ==
  { [SSOStartURL |-> StartURL, SSORegion |-> RegionUs1, Regions |-> <<RegionUs1>>,
     NamespaceDefaults |-> (EnvDev :> NsApps), DiscoverNamespaces |-> TRUE],
    [SSOStartURL |-> StartURL, SSORegion |-> RegionUs1, Regions |-> <<RegionUs1>>,
     NamespaceDefaults |-> EmptyMap, DiscoverNamespaces |-> FALSE] }

\* the sequences over pool of length at most max
SeqsUpTo(pool, max) == UNION {[1..n -> pool] : n \in 0..max}

\* Inventory.GeneratedAt, the time of the discovery
GeneratedAtValues == {1}

Inventories(rolePool, maxRoles, clusterPool, maxClusters) ==
  [GeneratedAt : GeneratedAtValues,
   Roles       : SeqsUpTo(rolePool, maxRoles),
   Clusters    : SeqsUpTo(clusterPool, maxClusters)]

MaxRoles == 3
MaxClusters == 2

None == [none |-> TRUE]

(***************************************************************************)
(* internal/awsconfig/manager.go: the cloud-profile store. The file is the *)
(* content the INI library parses, Sections: section name -> (key ->       *)
(* value). None is a path with no file.                                    *)
(***************************************************************************)

riftProfilePrefix == S(<<"p", "r", "o", "f", "i", "l", "e", " ", "r", "i", "f", "t", "-">>)
ssoSessionSection == S(<<"s", "s", "o", "-", "s", "e", "s", "s", "i", "o", "n", " ", "r", "i", "f", "t">>)
legacyAuthProfile == S(<<"p", "r", "o", "f", "i", "l", "e", " ", "r", "i", "f", "t", "-", "a", "u", "t", "h">>)
ProfileSpace == S(<<"p", "r", "o", "f", "i", "l", "e", " ">>)
Rift == S(<<"r", "i", "f", "t">>)
Json == S(<<"j", "s", "o", "n">>)
SsoScopes == S(<<"s", "s", "o", ":", "a", "c", "c", "o", "u", "n", "t", ":", "a", "c", "c", "e", "s", "s">>)

\* awsconfig.SyncResult{}
ZeroSyncResult == [Added |-> 0, Updated |-> 0, Removed |-> 0]

\* the element of a one-element set: it fixes a value before it is used
TheOnly(set) == CHOOSE x \in set : TRUE

\* a missing file loads as an empty ini.File
loadINI(disk) == IF disk = None THEN EmptyMap ELSE disk.Sections

\* section.Key(key) creates the key with an empty value when it is missing
setKeyNoCompare(section, key, value) ==
  LET touched == IF key \in DOMAIN section THEN section ELSE MapPut(section, key, <<>>)
  IN  [section |-> MapPut(touched, key, value), changed |-> TRUE]

setKey(section, key, value) ==
  LET touched  == IF key \in DOMAIN section THEN section ELSE MapPut(section, key, <<>>)
      existing == touched[key]
  IN  IF existing = value
        THEN [section |-> touched, changed |-> FALSE]
        ELSE [section |-> MapPut(touched, key, value), changed |-> TRUE]

\* changed = setKey(sec, k, v) || changed, for the first n pairs of kvs
RECURSIVE setKeys(_, _, _)
setKeys(section, kvs, n) ==
  IF n = 0 THEN [section |-> section, changed |-> FALSE]
  ELSE TheOnly({ TheOnly({ [section |-> r.section, changed |-> r.changed \/ before.changed] :
                             r \in {setKey(before.section, kvs[n][1], kvs[n][2])} }) :
                 before \in {setKeys(section, kvs, n - 1)} })

ensureSSOSessionWithoutScopes(file, cfg) ==
  LET sec == MapGet(file, ssoSessionSection, EmptyMap)
      kvs == << <<"sso_start_url", cfg.SSOStartURL>>,
                <<"sso_region", cfg.SSORegion>> >>
  IN  TheOnly({ [file |-> MapPut(file, ssoSessionSection, r.section), changed |-> r.changed] :
                r \in {setKeys(sec, kvs, 2)} })

ensureSSOSession(file, cfg) ==
  LET sec == MapGet(file, ssoSessionSection, EmptyMap)
      kvs == << <<"sso_start_url", cfg.SSOStartURL>>,
                <<"sso_region", cfg.SSORegion>>,
                <<"sso_registration_scopes", SsoScopes>> >>
  IN  TheOnly({ [file |-> MapPut(file, ssoSessionSection, r.section), changed |-> r.changed] :
                r \in {setKeys(sec, kvs, 3)} })

\* sort.Strings on the keys of a map: the keys in increasing byte order
RECURSIVE sortStrings(_)
sortStrings(set) ==
  IF set = {} THEN <<>>
  ELSE LET m == CHOOSE x \in set : \A y \in set : x = y \/ StrLess(x, y)
       IN  <<m>> \o sortStrings(set \ {m})

\* desired[role.AWSProfile] = role over st.Roles: a later record replaces an
\* earlier one of the same profile name
RECURSIVE awsDesired(_, _)
awsDesired(roles, n) ==
  IF n = 0 THEN EmptyMap
  ELSE MapPut(awsDesired(roles, n - 1), roles[n].AWSProfile, roles[n])

existingRiftAnyProfile(file) ==
  {TrimPrefix(name, ProfileSpace) : name \in {m \in DOMAIN file : HasPrefix(m, ProfileSpace)}}

\* the names, without "profile ", of the sections the prefix marks as owned
existingRift(file) ==
  {TrimPrefix(name, ProfileSpace) : name \in {m \in DOMAIN file : HasPrefix(m, riftProfilePrefix)}}

\* the stale profiles of a Sync that spares the profile of the legacy login
awsStaleKeepingAuth(file, desired) ==
  {profile \in existingRift(file) :
     profile \notin DOMAIN desired /\ ProfileSpace \o profile # legacyAuthProfile}

awsStale(file, desired) == {profile \in existingRift(file) : profile \notin DOMAIN desired}

RECURSIVE deleteSections(_, _)
deleteSections(file, names) ==
  IF names = {} THEN file
  ELSE LET name == CHOOSE x \in names : TRUE
       IN  deleteSections(MapDelete(file, name), names \ {name})

defaultRegion(cfg) == IF Len(cfg.Regions) > 0 THEN cfg.Regions[1] ELSE <<>>

\* one turn of the profile loop of Sync, for the profile named profile
awsProfileStep(before, desired, profile, region) ==
  LET role    == desired[profile]
      secName == ProfileSpace \o profile
      created == secName \notin DOMAIN before.file
      sec     == MapGet(before.file, secName, EmptyMap)
      kvs     == << <<"sso_session", Rift>>,
                    <<"sso_account_id", role.AccountID>>,
                    <<"sso_role_name", role.RoleName>> >>
                 \o (IF region # <<>> THEN << <<"region", region>> >> ELSE <<>>)
                 \o << <<"output", Json>> >>
  IN  TheOnly({ [file   |-> MapPut(before.file, secName, r.section),
                 result |-> [before.result EXCEPT
                               !.Added   = IF created THEN @ + 1 ELSE @,
                               !.Updated = IF r.changed /\ ~created THEN @ + 1 ELSE @]] :
                r \in {setKeys(sec, kvs, Len(kvs))} })

\* the profile loop of Sync over the first n names of sorted
RECURSIVE awsProfileLoop(_, _, _, _, _, _)
awsProfileLoop(file, result, desired, sorted, region, n) ==
  IF n = 0 THEN [file |-> file, result |-> result]
  ELSE TheOnly({ awsProfileStep(before, desired, sorted[n], region) :
                 before \in {awsProfileLoop(file, result, desired, sorted, region, n - 1)} })

\* Sync up to its dryRun test: the file in memory and the result
awsconfigReconcile(disk, cfg, st) ==
  TheOnly({ LET stale   == awsStale(session.file, desired)
                file1   == deleteSections(session.file, {ProfileSpace \o p : p \in stale})
                result1 == [Added   |-> 0,
                            Updated |-> IF session.changed THEN 1 ELSE 0,
                            Removed |-> Cardinality(stale)]
                sorted  == sortStrings(DOMAIN desired)
            IN  awsProfileLoop(file1, result1, desired, sorted, defaultRegion(cfg), Len(sorted)) :
            session \in {ensureSSOSession(loadINI(disk), cfg)},
            desired \in {awsDesired(st.Roles, Len(st.Roles))} })

\* awsconfig.Sync on the file at the path: the file it leaves and its result
awsconfigSync(disk, cfg, st, dryRun) ==
  TheOnly({ [disk |-> IF dryRun THEN disk ELSE [Sections |-> done.file], result |-> done.result] :
            done \in {awsconfigReconcile(disk, cfg, st)} })

(***************************************************************************)
(* encoding/base64 StdEncoding.DecodeString, as both the reconciler and    *)
(* the probe use it on ClusterCertificateBase64                            *)
(***************************************************************************)

Base64Alphabet == S(<<"A", "B", "C", "D", "E", "F", "G", "H", "I", "J", "K", "L", "M", "N", "O", "P", "Q", "R", "S", "T", "U", "V", "W", "X", "Y", "Z", "a", "b", "c", "d", "e", "f", "g", "h", "i", "j", "k", "l", "m", "n", "o", "p", "q", "r", "s", "t", "u", "v", "w", "x", "y", "z", "0", "1", "2", "3", "4", "5", "6", "7", "8", "9", "+", "/">>)
PadByte == ord["="]
BadBase64 == [ok |-> FALSE, bytes |-> <<>>]

\* the 6-bit value of an alphabet byte, -1 for any other byte
Base64Value(b) ==
  IF \E i \in 1..Len(Base64Alphabet) : Base64Alphabet[i] = b
    THEN (CHOOSE i \in 1..Len(Base64Alphabet) : Base64Alphabet[i] = b) - 1
    ELSE -1

\* the decoder skips carriage returns and line feeds
RECURSIVE StripNewlines(_)
StripNewlines(s) ==
  IF s = <<>> THEN <<>>
  ELSE IF Head(s) \in {10, 13} THEN StripNewlines(Tail(s))
  ELSE <<Head(s)>> \o StripNewlines(Tail(s))

\* one quantum of four bytes; padding is legal only in the last one
DecodeQuantum(q, last) ==
  LET v(i) == Base64Value(q[i])
      pad2 == last /\ q[3] = PadByte /\ q[4] = PadByte
      pad1 == last /\ q[3] # PadByte /\ q[4] = PadByte
      n    == IF pad2 THEN 2 ELSE IF pad1 THEN 3 ELSE 4
      bits == v(1) * 262144 + v(2) * 4096
              + (IF n >= 3 THEN v(3) * 64 ELSE 0) + (IF n = 4 THEN v(4) ELSE 0)
      all  == << bits \div 65536, (bits \div 256) % 256, bits % 256 >>
  IN  IF \E i \in 1..n : v(i) < 0 THEN BadBase64
      ELSE [ok |-> TRUE, bytes |-> SubSeq(all, 1, n - 1)]

RECURSIVE DecodeQuanta(_)
DecodeQuanta(s) ==
  IF s = <<>> THEN [ok |-> TRUE, bytes |-> <<>>]
  ELSE LET head == DecodeQuantum(SubSeq(s, 1, 4), Len(s) = 4)
           rest == DecodeQuanta(SubSeq(s, 5, Len(s)))
       IN  IF ~head.ok \/ ~rest.ok THEN BadBase64
           ELSE [ok |-> TRUE, bytes |-> head.bytes \o rest.bytes]

\* base64.StdEncoding.DecodeString: ok is FALSE when it returns an error
Base64Decode(s) ==
  LET t == StripNewlines(s)
  IN  IF Len(t) % 4 # 0 THEN BadBase64 ELSE DecodeQuanta(t)

\* caData: the decoded bytes, or the raw bytes when decoding fails
caData(cert) ==
  LET decoded == Base64Decode(cert)
  IN  IF decoded.ok THEN decoded.bytes ELSE cert

(***************************************************************************)
(* internal/kubeconfig/manager.go: the cluster-client store. The file is   *)
(* the api.Config the client library loads: Clusters, AuthInfos and        *)
(* Contexts are maps keyed by entry name.                                  *)
(***************************************************************************)

Nil == [nil |-> TRUE]
ExecAPIVersion == S(<<"c", "l", "i", "e", "n", "t", ".", "a", "u", "t", "h", "e", "n", "t", "i", "c", "a", "t", "i", "o", "n", ".", "k", "8", "s", ".", "i", "o", "/", "v", "1", "b", "e", "t", "a", "1">>)
Aws == S(<<"a", "w", "s">>)

\* kubeconfig.SyncResult{}
ZeroKubeResult == [AddedContexts |-> 0, UpdatedContexts |-> 0, RemovedContexts |-> 0]

\* api.NewConfig()
NewConfig == [Clusters |-> EmptyMap, AuthInfos |-> EmptyMap, Contexts |-> EmptyMap,
              CurrentContext |-> <<>>]

loadConfig(disk) == IF disk = None THEN NewConfig ELSE disk

clusterEqual(a, b) ==
  IF a = Nil \/ b = Nil THEN a = b
  ELSE IF a.Server # b.Server THEN FALSE
  ELSE a.CertificateAuthorityData = b.CertificateAuthorityData

userEqual(a, b) ==
  IF a = Nil \/ b = Nil THEN a = b
  ELSE IF a.Exec = Nil \/ b.Exec = Nil THEN a.Exec = b.Exec
  ELSE IF a.Exec.Command # b.Exec.Command \/ Len(a.Exec.Args) # Len(b.Exec.Args) THEN FALSE
  ELSE \A i \in 1..Len(a.Exec.Args) : a.Exec.Args[i] = b.Exec.Args[i]

contextEqual(a, b) ==
  IF a = Nil \/ b = Nil THEN a = b
  ELSE a.Cluster = b.Cluster /\ a.AuthInfo = b.AuthInfo /\ a.Namespace = b.Namespace

\* desired[cluster.KubeContext] = cluster over st.Clusters
RECURSIVE kubeDesired(_, _)
kubeDesired(clusters, n) ==
  IF n = 0 THEN EmptyMap
  ELSE MapPut(kubeDesired(clusters, n - 1), clusters[n].KubeContext, clusters[n])

desiredCluster(cluster) ==
  [Server |-> cluster.ClusterEndpoint,
   CertificateAuthorityData |-> caData(cluster.ClusterCertificateBase64)]

desiredUser(cluster) ==
  [Exec |-> [APIVersion |-> ExecAPIVersion,
             Command    |-> Aws,
             Args       |-> << S(<<"e", "k", "s">>), S(<<"g", "e", "t", "-", "t", "o", "k", "e", "n">>),
                               S(<<"-", "-", "p", "r", "o", "f", "i", "l", "e">>), cluster.AWSProfile,
                               S(<<"-", "-", "c", "l", "u", "s", "t", "e", "r", "-", "n", "a", "m", "e">>), cluster.ClusterName,
                               S(<<"-", "-", "r", "e", "g", "i", "o", "n">>), cluster.Region >>],
   Token |-> <<>>]

desiredContext(cluster, ctxName) ==
  [Cluster |-> ctxName, AuthInfo |-> ctxName,
   Namespace |-> IF cluster.Namespace # <<>> THEN cluster.Namespace ELSE <<>>]

kubeStaleAnyName(cfg, desired) ==
  {ctxName \in DOMAIN cfg.Contexts : ctxName \notin DOMAIN desired}

\* the owned contexts no desired record names: the removal loop ranges over
\* cfg.Contexts only
kubeStale(cfg, desired) ==
  {ctxName \in DOMAIN cfg.Contexts :
     HasPrefix(ctxName, RiftDash) /\ ctxName \notin DOMAIN desired}

RECURSIVE deleteKeys(_, _)
deleteKeys(m, names) ==
  IF names = {} THEN m
  ELSE LET name == CHOOSE x \in names : TRUE
       IN  deleteKeys(MapDelete(m, name), names \ {name})

\* one turn of the loop of Sync, for the context named ctxName
kubeStep(before, cluster, ctxName) ==
  LET dCluster == desiredCluster(cluster)
      dUser    == desiredUser(cluster)
      dContext == desiredContext(cluster, ctxName)
      clusterExisted == ctxName \in DOMAIN before.cfg.Clusters
      differs  == \/ ~clusterEqual(MapGet(before.cfg.Clusters, ctxName, Nil), dCluster)
                  \/ ~userEqual(MapGet(before.cfg.AuthInfos, ctxName, Nil), dUser)
                  \/ ~contextEqual(MapGet(before.cfg.Contexts, ctxName, Nil), dContext)
  IN  [cfg    |-> [before.cfg EXCEPT
                     !.Clusters  = MapPut(@, ctxName, dCluster),
                     !.AuthInfos = MapPut(@, ctxName, dUser),
                     !.Contexts  = MapPut(@, ctxName, dContext)],
       result |-> [before.result EXCEPT
                     !.AddedContexts   = IF ~clusterExisted THEN @ + 1 ELSE @,
                     !.UpdatedContexts = IF clusterExisted /\ differs THEN @ + 1 ELSE @]]

\* the loop of Sync over the first n names
RECURSIVE kubeLoop(_, _, _, _, _)
kubeLoop(cfg, result, desired, names, n) ==
  IF n = 0 THEN [cfg |-> cfg, result |-> result]
  ELSE TheOnly({ kubeStep(before, cluster, names[n]) :
                 before \in {kubeLoop(cfg, result, desired, names, n - 1)},
                 cluster \in {desired[names[n]]} })

fixCurrentContextAlwaysFirst(cfg, names) ==
  [cfg EXCEPT !.CurrentContext = IF Len(names) > 0 THEN names[1] ELSE @]

\* the CurrentContext repair after the loop
fixCurrentContext(cfg, names) ==
  LET kept == IF cfg.CurrentContext # <<>> /\ cfg.CurrentContext \notin DOMAIN cfg.Contexts
                THEN <<>> ELSE cfg.CurrentContext
  IN  [cfg EXCEPT !.CurrentContext = IF kept = <<>> /\ Len(names) > 0 THEN names[1] ELSE kept]

\* Sync up to its dryRun test: the api.Config in memory and the result
kubeconfigReconcile(disk, st) ==
  TheOnly({ LET stale   == kubeStale(cfg0, desired)
                cfg1    == [cfg0 EXCEPT !.Contexts  = deleteKeys(@, stale \cap DOMAIN @),
                                        !.Clusters  = deleteKeys(@, stale \cap DOMAIN @),
                                        !.AuthInfos = deleteKeys(@, stale \cap DOMAIN @)]
                result1 == [ZeroKubeResult EXCEPT !.RemovedContexts = Cardinality(stale)]
            IN  TheOnly({ [cfg |-> fixCurrentContext(done.cfg, names), result |-> done.result] :
                          done \in {kubeLoop(cfg1, result1, desired, names, Len(names))} }) :
            cfg0 \in {loadConfig(disk)},
            desired \in {kubeDesired(st.Clusters, Len(st.Clusters))},
            names \in {sortStrings(DOMAIN kubeDesired(st.Clusters, Len(st.Clusters)))} })

kubeconfigSyncAlwaysWrites(disk, st, dryRun) ==
  TheOnly({ [disk |-> done.cfg, result |-> done.result] :
            done \in {kubeconfigReconcile(disk, st)} })

\* kubeconfig.Sync on the file at the path: the file it leaves and its result
kubeconfigSync(disk, st, dryRun) ==
  TheOnly({ [disk |-> IF dryRun THEN disk ELSE done.cfg, result |-> done.result] :
            done \in {kubeconfigReconcile(disk, st)} })

(***************************************************************************)
(* internal/namespaces/discovery.go: the namespace probe                   *)
(***************************************************************************)

\* namespaces.Result{}
ZeroNsResult == [Enabled |-> FALSE, ClustersTried |-> 0, ClustersUpdated |-> 0, Errors |-> 0]

\* the outcome of fetchClusterNamespaces: an error, or the namespace names
ProbeError == [err |-> TRUE, namespaces |-> <<>>]
ProbeOk(names) == [err |-> FALSE, namespaces |-> names]

\* the clusters Enrich starts a probe for
probed(cluster) ==
  TrimSpace(cluster.ClusterEndpoint) # <<>> /\ TrimSpace(cluster.ClusterName) # <<>>

\* a merge that keeps the discovered names only
mergeNamespacesDiscoveredOnly(cluster, discovered) ==
  sortStrings({TrimSpace(ns) : ns \in Range(discovered)} \ {<<>>})

mergeNamespaces(cluster, discovered) ==
  sortStrings({TrimSpace(ns) : ns \in Range(cluster.Namespaces) \cup {cluster.Namespace}
                                      \cup Range(discovered)} \ {<<>>})

equalStringSets(a, b) ==
  /\ Len(a) = Len(b)
  /\ SortSlice(a, a) = SortSlice(b, b)

\* the turn of the mutant: a probe that failed is passed over
enrichStepPassingOverErrors(before, item, n) ==
  IF item.err THEN before
  ELSE TheOnly({ IF ~equalStringSets(before.clusters[n].Namespaces, merged)
                   THEN [clusters |-> [before.clusters EXCEPT ![n].Namespaces = merged],
                         result   |-> [before.result EXCEPT !.ClustersUpdated = @ + 1]]
                   ELSE before :
                 merged \in {mergeNamespaces(before.clusters[n], item.namespaces)} })

\* one turn of the outcome loop of Enrich, for the outcome item of cluster n
enrichStep(before, item, n) ==
  IF item.err THEN [before EXCEPT !.result.Errors = @ + 1]
  ELSE TheOnly({ IF ~equalStringSets(before.clusters[n].Namespaces, merged)
                   THEN [clusters |-> [before.clusters EXCEPT ![n].Namespaces = merged],
                         result   |-> [before.result EXCEPT !.ClustersUpdated = @ + 1]]
                   ELSE before :
                 merged \in {mergeNamespaces(before.clusters[n], item.namespaces)} })

\* the outcome loop of Enrich; every probed index has one outcome, and the
\* outcome of an index touches that index only
RECURSIVE enrichLoop(_, _, _, _)
enrichLoop(clusters, result, outcomes, n) ==
  IF n = 0 THEN [clusters |-> clusters, result |-> result]
  ELSE TheOnly({ IF ~probed(clusters[n]) THEN before ELSE enrichStep(before, outcomes[n], n) :
                 before \in {enrichLoop(clusters, result, outcomes, n - 1)} })

ErrProbe == "namespace discovery failed"

\* what the worker of a probe returns to the errgroup, as the mutant has it:
\* the error of the probe
probeWorkerReturnsProbeError(item) == IF item.err THEN ErrProbe ELSE ""

\* what the worker of a probe returns to the errgroup: it appends the
\* outcome, error or not, and returns nil
probeWorkerReturns(item) == ""

\* g.Wait() of Enrich: the first error a worker returned, or nil
enrichWait(clusters, outcomes) ==
  IF \E i \in 1..Len(clusters) : probed(clusters[i]) /\ probeWorkerReturns(outcomes[i]) # ""
  THEN ErrProbe
  ELSE ""

\* namespaces.Enrich with outcomes[i] the outcome of the probe of cluster i
Enrich(st, outcomes) ==
  LET result0 == [ZeroNsResult EXCEPT
                    !.Enabled = TRUE,
                    !.ClustersTried = Cardinality({i \in 1..Len(st.Clusters) : probed(st.Clusters[i])})]
  IN  TheOnly({ [st |-> [st EXCEPT !.Clusters = done.clusters], result |-> done.result] :
                done \in {enrichLoop(st.Clusters, result0, outcomes, Len(st.Clusters))} })

(***************************************************************************)
(* The state package: Save                                                 *)
(***************************************************************************)

\* state.Save: the file holds the normalized State
Save(st) == Normalize(st)

(***************************************************************************)
(* The discovery package: the order Discover returns the Inventory in      *)
(***************************************************************************)

discoverRoleKey(role) == role.AccountName \o Bar \o role.RoleName

discoverClusterKey(cluster) ==
  cluster.AccountName \o Bar \o cluster.RoleName \o Bar \o cluster.Region \o Bar \o cluster.ClusterName

\* the two sort.Slice calls at the end of Discover
sortInventory(inv) ==
  [inv EXCEPT
     !.Roles    = SortSlice(inv.Roles, [i \in 1..Len(inv.Roles) |-> discoverRoleKey(inv.Roles[i])]),
     !.Clusters = SortSlice(inv.Clusters,
                            [i \in 1..Len(inv.Clusters) |-> discoverClusterKey(inv.Clusters[i])])]

(***************************************************************************)
(* internal/discovery/token_cache.go: the token of the SSO token cache.    *)
(* A time.Time is a number of seconds. The text of an expiresAt field is   *)
(* the layout it is written in and the instant it denotes.                 *)
(***************************************************************************)

ErrSSONotLoggedIn == "aws sso token missing or expired"
ErrReadCache == "read sso cache"
ErrNoHome == "$HOME is not defined"

Minute == 60

DotJson == S(<<".", "j", "s", "o", "n">>)

LayoutRFC3339 == "2006-01-02T15:04:05Z07:00"
LayoutUTC == "2006-01-02T15:04:05UTC"
LayoutSpace == "2006-01-02 15:04:05"

Expiry(layout, at) == [layout |-> layout, at |-> at]

\* an expiresAt field that is the empty string
NoExpiry == Expiry("", 0)

\* parseExpiry tries its three layouts in turn
parseExpiry(v) ==
  IF v.layout \in {LayoutRFC3339, LayoutUTC, LayoutSpace}
  THEN [ok |-> TRUE, at |-> v.at]
  ELSE [ok |-> FALSE, at |-> 0]

tokenInfo(accessToken, expiresAt) == [AccessToken |-> accessToken, ExpiresAt |-> expiresAt]

\* the freshness test of the mutant: a token is fresh until it expires
isFreshUntilExpiry(expiresAt, now) == expiresAt > now

\* expiresAt.After(now.Add(1 * time.Minute))
isFresh(expiresAt, now) == expiresAt > now + Minute

\* the body of the loop over the directory entries: whether the entry is
\* appended to candidates
isCandidate(entry, startURL, region, now) ==
  /\ ~entry.IsDir
  /\ HasSuffix(entry.Name, DotJson)
  /\ entry.Readable
  /\ entry.Record # None
  /\ entry.Record.AccessToken # <<>>
  /\ entry.Record.ExpiresAt # NoExpiry
  /\ (startURL # <<>> => entry.Record.StartURL = startURL)
  /\ (region # <<>> => ToLower(entry.Record.Region) = region)
  /\ parseExpiry(entry.Record.ExpiresAt).ok
  /\ isFresh(parseExpiry(entry.Record.ExpiresAt).at, now)

RECURSIVE tokenCandidates(_, _, _, _, _)
tokenCandidates(entries, startURL, region, now, n) ==
  IF n = 0 THEN <<>>
  ELSE TheOnly({ IF isCandidate(entries[n], startURL, region, now)
                   THEN Append(before, tokenInfo(entries[n].Record.AccessToken,
                                                 parseExpiry(entries[n].Record.ExpiresAt).at))
                   ELSE before :
                 before \in {tokenCandidates(entries, startURL, region, now, n - 1)} })

\* sort.Slice(candidates, ...) with less = candidates[i].ExpiresAt.After(
\* candidates[j].ExpiresAt): the insertion sort of a short slice
RECURSIVE insertByExpiry(_, _)
insertByExpiry(sorted, x) ==
  IF sorted = <<>> \/ ~(x.ExpiresAt > sorted[Len(sorted)].ExpiresAt)
  THEN Append(sorted, x)
  ELSE Append(insertByExpiry(SubSeq(sorted, 1, Len(sorted) - 1), x), sorted[Len(sorted)])

\* the candidates left in the order of the directory
sortByExpiryKeepingOrder(candidates, n) == candidates

RECURSIVE sortByExpiry(_, _)
sortByExpiry(candidates, n) ==
  IF n = 0 THEN <<>> ELSE insertByExpiry(sortByExpiry(candidates, n - 1), candidates[n])

\* what os.UserHomeDir and os.ReadDir can return besides a listing
NoHomeDir == [listing |-> "no home directory"]
NoCacheDir == [listing |-> "no such directory"]
Listing(entries) == [listing |-> "ok", entries |-> entries]

loadTokenFromCache(dir, startURL0, region0, now) ==
  IF dir = NoHomeDir THEN [err |-> ErrNoHome, token |-> None]
  ELSE IF dir = NoCacheDir THEN [err |-> ErrReadCache, token |-> None]
  ELSE LET startURL == TrimSpace(startURL0)
           region == ToLower(TrimSpace(region0))
           candidates == tokenCandidates(dir.entries, startURL, region, now, Len(dir.entries))
       IN  IF Len(candidates) = 0
           THEN [err |-> ErrSSONotLoggedIn, token |-> None]
           ELSE [err |-> "", token |-> sortByExpiry(candidates, Len(candidates))[1]]

CacheEntry(name, record) ==
  [Name |-> name, IsDir |-> FALSE, Readable |-> TRUE, Record |-> record]

CacheRecord(startURL, region, accessToken, expiresAt) ==
  [StartURL |-> startURL, Region |-> region, AccessToken |-> accessToken,
   ExpiresAt |-> expiresAt]

FileName(c) == S(<<c>>) \o DotJson

RegionUpper == S(<<"U", "S", "1">>)

\* the time of the call
Nows == {1000}

\* the entries a cache directory can hold, in the order of their names: for
\* each time of the call four tokens whose expiry is around the freshness
\* margin (the second with the region in upper case), a token of another start
\* URL, a token whose expiry has no known layout, a record without a token, a
\* record without an expiry, a file that is no JSON document, a file that
\* cannot be read, a file with another extension and a directory
EntryList(now) ==
  << CacheEntry(FileName("a"), CacheRecord(StartURL, RegionUs1, S(<<"A">>), Expiry(LayoutRFC3339, now + 2 * Minute))),
     CacheEntry(FileName("b"), CacheRecord(StartURL, RegionUpper, S(<<"B">>), Expiry(LayoutUTC, now + Minute + 1))),
     CacheEntry(FileName("c"), CacheRecord(StartURL, RegionUs1, S(<<"C">>), Expiry(LayoutSpace, now + Minute))),
     CacheEntry(FileName("d"), CacheRecord(StartURL, RegionUs1, S(<<"D">>), Expiry(LayoutRFC3339, now + 30))),
     CacheEntry(FileName("e"), CacheRecord(OldURL, RegionUs1, S(<<"E">>), Expiry(LayoutRFC3339, now + 2 * Minute))),
     CacheEntry(FileName("f"), CacheRecord(StartURL, RegionUs1, S(<<"F">>), Expiry("Jan 2 2006", now + 2 * Minute))),
     CacheEntry(FileName("g"), CacheRecord(StartURL, RegionUs1, <<>>, Expiry(LayoutRFC3339, now + 2 * Minute))),
     CacheEntry(FileName("h"), CacheRecord(StartURL, RegionUs1, S(<<"H">>), NoExpiry)),
     CacheEntry(FileName("i"), None),
     [CacheEntry(FileName("j"), CacheRecord(StartURL, RegionUs1, S(<<"J">>), Expiry(LayoutRFC3339, now + 2 * Minute)))
        EXCEPT !.Readable = FALSE],
     CacheEntry(S(<<"k", ".", "t", "x", "t">>),
                CacheRecord(StartURL, RegionUs1, S(<<"K">>), Expiry(LayoutRFC3339, now + 2 * Minute))),
     [CacheEntry(FileName("l"), None) EXCEPT !.IsDir = TRUE] >>

MaxCacheEntries == 3

\* the elements of list at the indices of keep, in the order of list
RECURSIVE pick(_, _, _)
pick(list, keep, n) ==
  IF n = 0 THEN <<>>
  ELSE IF n \in keep THEN Append(pick(list, keep, n - 1), list[n])
  ELSE pick(list, keep, n - 1)

\* os.ReadDir returns the entries sorted by name
Listings(now) ==
  { Listing(pick(EntryList(now), keep, Len(EntryList(now)))) :
      keep \in {k \in SUBSET (1..Len(EntryList(now))) : Cardinality(k) <= MaxCacheEntries} }

CacheDirs(now) == {NoHomeDir, NoCacheDir} \cup Listings(now)

StartURLs == {StartURL, <<>>, S(<<" ">>) \o StartURL}
Regions == {RegionUs1, RegionUpper, <<>>}

(***************************************************************************)
(* listAccounts and listRoles: the paginated listings of discovery         *)
(***************************************************************************)

\* a nil error
NoError == ""

Account(id, name) == [ID |-> id, Name |-> name]

\* a page of a listing: the error of the call, or the items of the page; the
\* last page of a sequence of pages is the one with no NextToken
ErrorPage == [err |-> TRUE, items |-> <<>>]
Page(items) == [err |-> FALSE, items |-> items]

\* accounts = append(accounts, ...) for each of the first n pages
RECURSIVE appendPages(_, _)
appendPages(pages, n) ==
  IF n = 0 THEN <<>> ELSE appendPages(pages, n - 1) \o pages[n].items

\* the pages before the first page that fails
pagesRead(pages, n) == {k \in 1..n : \A j \in 1..k : ~pages[j].err}

\* listAccounts as the mutant has it: a page that fails ends the loop, as in
\* listRoles
listAccountsBreakOnError(pages, n) ==
  [err |-> FALSE, accounts |-> appendPages(pages, Cardinality(pagesRead(pages, n)))]

\* the for loop of listAccounts over n pages: a page that fails makes the
\* result (nil, err)
listAccounts(pages, n) ==
  IF \E k \in 1..n : pages[k].err
  THEN [err |-> TRUE, accounts |-> <<>>]
  ELSE [err |-> FALSE, accounts |-> appendPages(pages, n)]

\* the inner for loop of listRoles over the first n pages of one account:
\* each page that comes back is appended to roles, a page that fails ends
\* the loop
RECURSIVE listAccountRoles(_, _, _, _)
listAccountRoles(roles, acct, pages, n) ==
  IF n = 0 THEN [roles |-> roles, broke |-> FALSE]
  ELSE TheOnly({ IF before.broke THEN before
                 ELSE IF pages[n].err THEN [before EXCEPT !.broke = TRUE]
                 ELSE [before EXCEPT !.roles =
                         @ \o [k \in 1..Len(pages[n].items) |->
                                 RoleAccess(acct.ID, acct.Name, pages[n].items[k])]] :
                 before \in {listAccountRoles(roles, acct, pages, n - 1)} })

\* the outer for loop of listRoles over the first n accounts
RECURSIVE listRolesLoop(_, _, _)
listRolesLoop(accounts, pagesOf, n) ==
  IF n = 0 THEN <<>>
  ELSE listAccountRoles(listRolesLoop(accounts, pagesOf, n - 1), accounts[n],
                        pagesOf[accounts[n].ID], Len(pagesOf[accounts[n].ID])).roles

listRoles(accounts, pagesOf) ==
  [roles |-> listRolesLoop(accounts, pagesOf, Len(accounts)), err |-> NoError]

(***************************************************************************)
(* State                                                                   *)
(***************************************************************************)

VARIABLES
  config,          \* the loaded config.Config
  inventory,       \* the discovery.Inventory handed to naming.BuildState
  state,           \* the state.State of the run, None before the call
  prevInventory,   \* the Inventory of the run before
  prevState,       \* the State of the run before
  world,           \* which files the user had before the first run
  awsFile,         \* the file at the cloud-profile path, None when there is none
  kubeFile,        \* the file at the kubeconfig path, None when there is none
  stateFile,       \* the file at the state path, None when there is none
  pc,              \* where App.RunSync stands
  run,             \* the run in progress or the last one: its flag and results
  pre,             \* the three files as they were when the run began
  failure,         \* the error of the last RunSync, None if it returned none
  args,            \* the arguments of the function a specification calls
  returned,        \* what the call returned, None before it
  cancelled,       \* whether the caller has cancelled the context of the call
  spawned,         \* how many workers the errgroup of the call was given
  workers,         \* where each worker of the errgroup stands
  collected        \* the slice the workers append to

storeVars == <<world, awsFile, kubeFile, stateFile, pc, run, pre, failure>>

callVars == <<args, returned>>

\* what the specifications of App.RunSync and of naming.BuildState leave alone
groupVars == <<cancelled, spawned, workers, collected>>

auxVars == <<callVars, groupVars>>

vars == <<config, inventory, state, prevInventory, prevState,
          world, awsFile, kubeFile, stateFile, pc, run, pre, failure, args, returned,
          cancelled, spawned, workers, collected>>

\* the specifications of naming.BuildState alone touch no file
NoStores ==
  /\ world = None
  /\ awsFile = None
  /\ kubeFile = None
  /\ stateFile = None
  /\ pc = "idle"
  /\ run = None
  /\ pre = None
  /\ failure = None

NoCall ==
  /\ args = None
  /\ returned = None

NoGroup ==
  /\ cancelled = FALSE
  /\ spawned = 0
  /\ workers = <<>>
  /\ collected = <<>>

NoAux == NoCall /\ NoGroup

\* the specifications of one function touch neither the run nor its files
NoRun ==
  /\ config = None
  /\ inventory = None
  /\ state = None
  /\ prevInventory = None
  /\ prevState = None
  /\ NoStores

runVars == <<config, inventory, state, prevInventory, prevState, storeVars>>

(***************************************************************************)
(* naming.BuildState applied to one Inventory                              *)
(***************************************************************************)

InitNaming ==
  /\ config \in Configs
  /\ inventory \in Inventories(RolePool, MaxRoles, ClusterPool, MaxClusters)
  /\ state = None
  /\ prevInventory = None
  /\ prevState = None
  /\ NoStores
  /\ NoAux

CallBuildState ==
  /\ state = None
  /\ state' = BuildState(config, inventory)
  /\ UNCHANGED <<config, inventory, prevInventory, prevState>>
  /\ UNCHANGED storeVars
  /\ UNCHANGED auxVars

NextNaming == CallBuildState

SpecNaming == InitNaming /\ [][NextNaming]_vars

(***************************************************************************)
(* A sequence of sync runs, each building the State of a fresh Inventory   *)
(***************************************************************************)

\* the sequences over pool of length at most max that list no element twice
DistinctSeqsUpTo(pool, max) ==
  {s \in SeqsUpTo(pool, max) : \A i, j \in 1..Len(s) : s[i] = s[j] => i = j}

RunClusterPool ==
  { ClusterAccess(Id1, Acme, RoleAdminUpper, RegionUs1, ClusterWebUpper, Arn1, Endpoint1, CertA),
    ClusterAccess(Id1, Acme, RoleAdminUpper, RegionUs1, ClusterWebLower, Arn2, Endpoint2, CertRaw) }

MaxRunRoles == 3
MaxRunClusters == 2

RunInventories ==
  [GeneratedAt : GeneratedAtValues,
   Roles       : DistinctSeqsUpTo(RolePool, MaxRunRoles),
   Clusters    : DistinctSeqsUpTo(RunClusterPool, MaxRunClusters)]

\* naming.BuildState on every input of a run, computed once
runStates ==
  [k \in Configs \X RunInventories |-> BuildState(k[1], k[2])] @@ <<>>

InitRuns ==
  /\ config \in Configs
  /\ inventory = None
  /\ state = None
  /\ prevInventory = None
  /\ prevState = None
  /\ NoStores
  /\ NoAux

\* one run: discovery returns i and naming.BuildState names it
SyncRun(i) ==
  /\ inventory' = i
  /\ state' = runStates[<<config, i>>]
  /\ prevInventory' = inventory
  /\ prevState' = state
  /\ UNCHANGED config
  /\ UNCHANGED storeVars
  /\ UNCHANGED auxVars

NextRuns == \E i \in RunInventories : SyncRun(i)

SpecRuns == InitRuns /\ [][NextRuns]_vars

(***************************************************************************)
(* App.RunSync over the three files: discovery, naming.BuildState, the     *)
(* namespace probe, awsconfig.Sync, kubeconfig.Sync, state.Save            *)
(***************************************************************************)

SyncRolePool ==
  { RoleAccess(Id1, Acme, RoleAdminUpper),
    RoleAccess(Id1, Acme, RoleAdminLower) }

\* one cluster seen through either role, and a cluster with no endpoint
SyncClusterPool ==
  { ClusterAccess(Id1, Acme, RoleAdminUpper, RegionUs1, ClusterWebUpper, Arn1, Endpoint1, CertA),
    ClusterAccess(Id1, Acme, RoleAdminLower, RegionUs1, ClusterWebUpper, Arn1, Endpoint1, CertA),
    ClusterAccess(Id1, Acme, RoleAdminUpper, RegionUs1, ClusterDev, Arn2, <<>>, CertRaw) }

MaxSyncRoles == 2
MaxSyncClusters == 2

\* listAllClusters lists clusters through the listed roles only
clustersOfRoles(roles) ==
  {c \in SyncClusterPool :
     \E i \in 1..Len(roles) : roles[i].AccountID = c.AccountID /\ roles[i].RoleName = c.RoleName}

\* what Discover can return, computed once
Discovered ==
  UNION { { sortInventory([GeneratedAt |-> t, Roles |-> roles, Clusters |-> clusters]) :
              t \in GeneratedAtValues,
              clusters \in DistinctSeqsUpTo(clustersOfRoles(roles), MaxSyncClusters) } :
          roles \in DistinctSeqsUpTo(SyncRolePool, MaxSyncRoles) }

\* naming.BuildState on every input of a run, computed once
syncStates ==
  [k \in Configs \X Discovered |-> BuildState(k[1], k[2])] @@ <<>>

Minikube == S(<<"m", "i", "n", "i", "k", "u", "b", "e">>)
RiftMine == S(<<"r", "i", "f", "t", "-", "m", "i", "n", "e">>)
RiftGone == S(<<"r", "i", "f", "t", "-", "g", "o", "n", "e">>)
Work == S(<<"w", "o", "r", "k">>)
Secret == S(<<"t">>)
NsSystem == S(<<"s", "y", "s">>)

\* the files before the first run. "fresh": none of them exists. "used": the
\* user has entries of their own, among them a profile and a context they
\* named with the owned prefix, a cluster entry and a user entry with the owned
\* prefix whose context is gone, and an older sso-session section
Worlds == {"fresh", "used"}

WorldAws ==
  [w \in Worlds |->
     IF w = "fresh" THEN None
     ELSE [Sections |->
          (S(<<"d", "e", "f", "a", "u", "l", "t">>) :> ("region" :> RegionUs1))
          @@ ((ProfileSpace \o Work) :> ("region" :> RegionUs1 @@ "output" :> Json))
          @@ ((ProfileSpace \o RiftMine) :> ("region" :> RegionUs1))
          @@ (ssoSessionSection :> ("sso_start_url" :> OldURL))]]

userCluster(server) == [Server |-> server, CertificateAuthorityData |-> <<>>]
userAuth(token) == [Exec |-> Nil, Token |-> token]
userContext(name) == [Cluster |-> name, AuthInfo |-> name, Namespace |-> <<>>]

WorldKube ==
  [w \in Worlds |->
     IF w = "fresh" THEN None
     ELSE [Clusters  |-> (Minikube :> userCluster(Endpoint2))
                         @@ (RiftMine :> userCluster(Endpoint2))
                         @@ (RiftGone :> userCluster(Endpoint2)),
           AuthInfos |-> (Minikube :> userAuth(Secret))
                         @@ (RiftMine :> userAuth(Secret))
                         @@ (RiftGone :> userAuth(Secret)),
           Contexts  |-> (Minikube :> userContext(Minikube))
                         @@ (RiftMine :> userContext(RiftMine)),
           CurrentContext |-> RiftMine]]

\* what a probe can return: an error, or the sorted namespace names
ProbeOutcomes == {ProbeError, ProbeOk(<<NsSystem>>)}

\* one outcome for each probed cluster
outcomeLists(clusters) ==
  {o \in [1..Len(clusters) -> ProbeOutcomes] :
     \A i \in 1..Len(clusters) : ~probed(clusters[i]) => o[i] = ProbeError}

Init ==
  /\ config \in Configs
  /\ world \in Worlds
  /\ awsFile = WorldAws[world]
  /\ kubeFile = WorldKube[world]
  /\ stateFile = None
  /\ pc = "idle"
  /\ run = None
  /\ pre = None
  /\ failure = None
  /\ inventory = None
  /\ state = None
  /\ prevInventory = None
  /\ prevState = None
  /\ NoAux

\* the time of the runs
SyncNow == TheOnly(Nows)

\* the cache directory at the time of a run: none, one with a token that
\* expires in 30 s, one with a token that is good for two more minutes
SyncCacheDirs ==
  { NoCacheDir,
    Listing(<<EntryList(SyncNow)[4]>>),
    Listing(<<EntryList(SyncNow)[1]>>) }

ErrSSOLoginRequired == "aws sso login required"
LoginRequiredMessage == "aws sso login required. Run: rift auth"

\* if errors.Is(err, discovery.ErrSSONotLoggedIn) {
\*   return ..., fmt.Errorf("%w. Run: rift auth", ErrSSOLoginRequired) }
\* return ..., err
runSyncError(err) ==
  IF err = ErrSSONotLoggedIn
  THEN [is |-> ErrSSOLoginRequired, message |-> LoginRequiredMessage]
  ELSE [is |-> err, message |-> err]

\* the first step of Discover: the token of the cache directory
discoverToken(cfg, dir) == loadTokenFromCache(dir, cfg.SSOStartURL, cfg.SSORegion, SyncNow)

\* what ListAccounts returns at the time of a run: the account on one page,
\* the account on the first of two pages of which the second fails, a page
\* that fails
SyncAccountPages ==
  { <<Page(<<Account(Id1, Acme)>>)>>,
    <<Page(<<Account(Id1, Acme)>>), ErrorPage>>,
    <<ErrorPage>> }

ErrListAccounts == "list accounts"
ErrDiscoverNamespaces == "discover namespaces"

\* the error Discover returns, NoError if it returns none: the error of
\* loadTokenFromCache, else the error of listAccounts wrapped; listRoles and
\* listAllClusters hand it none
discoverError(cfg, dir, pages) ==
  IF discoverToken(cfg, dir).err # NoError THEN discoverToken(cfg, dir).err
  ELSE IF listAccounts(pages, Len(pages)).err THEN ErrListAccounts
  ELSE NoError

\* Discover up to the accounts on every input of a run, computed once
discoverErrors ==
  [k \in Configs \X SyncCacheDirs \X SyncAccountPages |-> discoverError(k[1], k[2], k[3])] @@ <<>>

\* the roles of inv are roles of the accounts listed
rolesWithin(inv, accounts) ==
  \A r \in 1..Len(inv.Roles) :
    \E a \in 1..Len(accounts) :
      accounts[a].ID = inv.Roles[r].AccountID /\ accounts[a].Name = inv.Roles[r].AccountName

\* RunSync up to the State: loadConfig, Discover returning inv, BuildState
BeginSync(dryRun, dir, pages, inv) ==
  /\ pc = "idle"
  /\ discoverErrors[<<config, dir, pages>>] = NoError
  /\ rolesWithin(inv, listAccounts(pages, Len(pages)).accounts)
  /\ pc' = "built"
  /\ inventory' = inv
  /\ state' = syncStates[<<config, inv>>]
  /\ run' = [DryRun |-> dryRun,
             Repeat |-> run # None /\ ~run.DryRun /\ inventory = inv,
             pages |-> pages,
             outcomes |-> <<>>,
             NS   |-> ZeroNsResult,
             AWS  |-> ZeroSyncResult,
             Kube |-> ZeroKubeResult]
  /\ pre' = [aws |-> awsFile, kube |-> kubeFile, saved |-> stateFile]
  /\ failure' = None
  /\ UNCHANGED <<config, prevInventory, prevState, world, awsFile, kubeFile, stateFile>>
  /\ UNCHANGED auxVars

\* RunSync when Discover returns an error: it returns the error at once.
\* Discover asks for no account when it has no token
FailSync(dryRun, dir, pages) ==
  /\ pc = "idle"
  /\ dryRun \in BOOLEAN
  /\ discoverErrors[<<config, dir, pages>>] # NoError
  /\ failure' = [dir   |-> dir,
                 pages |-> IF discoverToken(config, dir).err # NoError THEN <<>> ELSE pages,
                 Err   |-> runSyncError(discoverErrors[<<config, dir, pages>>]),
                 pre   |-> [aws |-> awsFile, kube |-> kubeFile, saved |-> stateFile]]
  /\ UNCHANGED <<config, inventory, state, prevInventory, prevState, world,
                 awsFile, kubeFile, stateFile, pc, run, pre>>
  /\ UNCHANGED auxVars

\* if cfg.DiscoverNamespaces { namespaces.Enrich(ctx, &st, ...) }
EnrichStep ==
  /\ pc = "built"
  /\ IF config.DiscoverNamespaces
       THEN \E outcomes \in outcomeLists(state.Clusters) :
              IF enrichWait(state.Clusters, outcomes) # NoError
              THEN /\ pc' = "idle"
                   /\ failure' = [Err |-> runSyncError(ErrDiscoverNamespaces), pre |-> pre]
                   /\ UNCHANGED <<state, run>>
              ELSE \E r \in {Enrich(state, outcomes)} :
                     /\ pc' = "enriched"
                     /\ state' = r.st
                     /\ run' = [run EXCEPT !.NS = r.result, !.outcomes = outcomes]
                     /\ UNCHANGED failure
       ELSE /\ pc' = "enriched"
            /\ UNCHANGED <<state, run, failure>>
  /\ UNCHANGED <<config, inventory, prevInventory, prevState, world,
                 awsFile, kubeFile, stateFile, pre>>
  /\ UNCHANGED auxVars

AwsSyncStep ==
  /\ pc = "enriched"
  /\ pc' = "awsDone"
  /\ \E r \in {awsconfigSync(awsFile, config, state, run.DryRun)} :
       /\ awsFile' = r.disk
       /\ run' = [run EXCEPT !.AWS = r.result]
  /\ UNCHANGED <<config, inventory, state, prevInventory, prevState, world,
                 kubeFile, stateFile, pre, failure>>
  /\ UNCHANGED auxVars

KubeSyncStep ==
  /\ pc = "awsDone"
  /\ pc' = "kubeDone"
  /\ \E r \in {kubeconfigSync(kubeFile, state, run.DryRun)} :
       /\ kubeFile' = r.disk
       /\ run' = [run EXCEPT !.Kube = r.result]
  /\ UNCHANGED <<config, inventory, state, prevInventory, prevState, world,
                 awsFile, stateFile, pre, failure>>
  /\ UNCHANGED auxVars

\* a RunSync that adds to the State file it finds instead of replacing it
SaveStateStepKeepingSaved ==
  /\ pc = "kubeDone"
  /\ pc' = "idle"
  /\ stateFile' = IF run.DryRun \/ stateFile # None THEN stateFile ELSE Save(state)
  /\ UNCHANGED <<config, inventory, state, prevInventory, prevState, world,
                 awsFile, kubeFile, run, pre, failure>>
  /\ UNCHANGED auxVars

\* if !dryRun { state.Save(a.StatePath, st) }, then the report is returned
SaveStateStep ==
  /\ pc = "kubeDone"
  /\ pc' = "idle"
  /\ stateFile' = IF run.DryRun THEN stateFile ELSE Save(state)
  /\ UNCHANGED <<config, inventory, state, prevInventory, prevState, world,
                 awsFile, kubeFile, run, pre, failure>>
  /\ UNCHANGED auxVars

Next ==
  \/ \E dryRun \in BOOLEAN, dir \in SyncCacheDirs, pages \in SyncAccountPages, inv \in Discovered :
       BeginSync(dryRun, dir, pages, inv)
  \/ \E dryRun \in BOOLEAN, dir \in SyncCacheDirs, pages \in SyncAccountPages :
       FailSync(dryRun, dir, pages)
  \/ EnrichStep
  \/ AwsSyncStep
  \/ KubeSyncStep
  \/ SaveStateStep

Spec == Init /\ [][Next]_vars

\* RunSync is one sequential function: once called, it takes its next step,
\* whatever the step is, until it returns
RunSyncAdvances ==
  /\ pc # "idle"
  /\ pc' \in {"idle", "built", "enriched", "awsDone", "kubeDone"} \ {pc}

SpecFair == Spec /\ WF_pc(RunSyncAdvances)

(***************************************************************************)
(* Claims about the reconcilers and App.RunSync                            *)
(***************************************************************************)

\* a non-dry-run RunSync has returned
syncDone == pc = "idle" /\ run # None /\ ~run.DryRun

\* C1: a non-dry-run sync that follows a non-dry-run sync of the same
\* Inventory under the same config returns Added = Updated = Removed = 0 from
\* both reconcilers and leaves the profile store and the cluster-client store
\* as they were when it began
C1_Idempotence ==
  (syncDone /\ run.Repeat) =>
     /\ run.AWS = ZeroSyncResult
     /\ run.Kube = ZeroKubeResult
     /\ awsFile = pre.aws
     /\ kubeFile = pre.kube

\* a repeated sync over the user's files, with two profiles and a context
C1_Witness ==
  /\ syncDone
  /\ run.Repeat
  /\ world = "used"
  /\ Len(state.Roles) = 2
  /\ Len(state.Clusters) > 0

\* the sections of the profile store outside the owned names
foreignSections(disk) ==
  LET file == loadINI(disk)
  IN  [name \in {m \in DOMAIN file : ~HasPrefix(m, riftProfilePrefix) /\ m # ssoSessionSection}
         |-> file[name]]

\* the entries of one map of the cluster-client store outside the owned names
foreignEntries(m) == [name \in {k \in DOMAIN m : ~HasPrefix(k, RiftDash)} |-> m[name]]

\* C2: whatever syncs have run, the profile-store sections whose name does
\* not start with "profile rift-" (the "sso-session rift" section aside) and
\* the context, cluster and user entries whose key does not start with "rift-"
\* are the ones the stores began with, with the content they began with
C2_OwnershipIsolation ==
  /\ foreignSections(awsFile) = foreignSections(WorldAws[world])
  /\ foreignEntries(loadConfig(kubeFile).Contexts)
       = foreignEntries(loadConfig(WorldKube[world]).Contexts)
  /\ foreignEntries(loadConfig(kubeFile).Clusters)
       = foreignEntries(loadConfig(WorldKube[world]).Clusters)
  /\ foreignEntries(loadConfig(kubeFile).AuthInfos)
       = foreignEntries(loadConfig(WorldKube[world]).AuthInfos)

\* both reconcilers have removed and added owned entries next to the user's
C2_Witness ==
  /\ syncDone
  /\ world = "used"
  /\ run.AWS.Removed > 0 /\ run.AWS.Added > 0
  /\ run.Kube.RemovedContexts > 0 /\ run.Kube.AddedContexts > 0
  /\ DOMAIN foreignSections(awsFile) # {}
  /\ DOMAIN foreignEntries(kubeFile.Contexts) # {}

\* the profile sections of a profile store
profileSections(disk) == {name \in DOMAIN loadINI(disk) : HasPrefix(name, ProfileSpace)}

\* C3 as stated: a profile or context that no Sync call created (every entry
\* the stores began with) is never deleted or overwritten
C3_UserEntriesNeverTouched ==
  /\ \A name \in profileSections(WorldAws[world]) :
       /\ name \in profileSections(awsFile)
       /\ loadINI(awsFile)[name] = loadINI(WorldAws[world])[name]
  /\ \A name \in DOMAIN loadConfig(WorldKube[world]).Contexts :
       /\ name \in DOMAIN loadConfig(kubeFile).Contexts
       /\ loadConfig(kubeFile).Contexts[name] = loadConfig(WorldKube[world]).Contexts[name]

\* C3 amended: a profile or context the stores began with is deleted or
\* overwritten only if its name has the owned prefix, and the prefix alone
\* makes an entry owned: once a non-dry-run Sync has written a store, each
\* profile or context in it with the owned prefix, whoever added it, has the
\* generated name of a record of the State
C3_OnlyPrefixedEntriesTouched ==
  /\ \A name \in profileSections(WorldAws[world]) :
       (name \notin profileSections(awsFile)
          \/ loadINI(awsFile)[name] # loadINI(WorldAws[world])[name])
       => HasPrefix(name, riftProfilePrefix)
  /\ \A name \in DOMAIN loadConfig(WorldKube[world]).Contexts :
       (name \notin DOMAIN loadConfig(kubeFile).Contexts
          \/ loadConfig(kubeFile).Contexts[name] # loadConfig(WorldKube[world]).Contexts[name])
       => HasPrefix(name, RiftDash)
  /\ (run # None /\ ~run.DryRun /\ pc \in {"awsDone", "kubeDone", "idle"}) =>
       \A name \in profileSections(awsFile) :
         HasPrefix(name, riftProfilePrefix) =>
           \E i \in 1..Len(state.Roles) : name = ProfileSpace \o state.Roles[i].AWSProfile
  /\ (run # None /\ ~run.DryRun /\ pc \in {"kubeDone", "idle"}) =>
       \A name \in DOMAIN kubeFile.Contexts :
         HasPrefix(name, RiftDash) =>
           \E i \in 1..Len(state.Clusters) : name = state.Clusters[i].KubeContext

\* the profile and the context the user named with the owned prefix are gone
\* and the user's other entries are still there
C3_Witness ==
  /\ syncDone
  /\ world = "used"
  /\ (ProfileSpace \o RiftMine) \notin profileSections(awsFile)
  /\ RiftMine \notin DOMAIN kubeFile.Contexts
  /\ (ProfileSpace \o Work) \in profileSections(awsFile)
  /\ Minikube \in DOMAIN kubeFile.Contexts

\* C4: after a non-dry-run sync has returned, every "profile rift-..." section
\* is the generated profile of a role of the State and every context, cluster
\* and user entry whose key starts with "rift-" is the generated context name
\* of a cluster of the State
C4_StaleOwnedRemoved ==
  syncDone =>
    /\ \A name \in profileSections(awsFile) :
         HasPrefix(name, riftProfilePrefix) =>
           \E i \in 1..Len(state.Roles) : name = ProfileSpace \o state.Roles[i].AWSProfile
    /\ \A name \in (DOMAIN kubeFile.Contexts) \cup (DOMAIN kubeFile.Clusters)
                     \cup (DOMAIN kubeFile.AuthInfos) :
         HasPrefix(name, RiftDash) =>
           \E i \in 1..Len(state.Clusters) : name = state.Clusters[i].KubeContext

\* C5: during and after a RunSync with dryRun = true the profile store, the
\* cluster-client store and the State file are what they were when the run
\* began, and the run returns the State of the Inventory and the diff counts
\* the reconcilers compute against those stores
C5_DryRunWritesNothing ==
  (run # None /\ run.DryRun) =>
     /\ awsFile = pre.aws
     /\ kubeFile = pre.kube
     /\ stateFile = pre.saved
     /\ pc = "idle" =>
          /\ state.Roles = syncStates[<<config, inventory>>].Roles
          /\ Len(state.Clusters) = Len(inventory.Clusters)
          /\ run.AWS = awsconfigReconcile(pre.aws, config, state).result
          /\ run.Kube = kubeconfigReconcile(pre.kube, state).result

\* a dry run that reports entries to add and to remove
C5_Witness ==
  /\ pc = "idle"
  /\ run # None
  /\ run.DryRun
  /\ run.AWS.Added > 0 /\ run.AWS.Removed > 0
  /\ run.Kube.AddedContexts > 0 /\ run.Kube.RemovedContexts > 0

(***************************************************************************)
(* Properties of naming.BuildState                                         *)
(***************************************************************************)


Dash2 == S(<<"-", "2">>)
Dash3 == S(<<"-", "3">>)


sameRole(a, b) == a.AccountID = b.AccountID /\ a.RoleName = b.RoleName

sameCluster(a, b) ==
  /\ a.AccountID = b.AccountID
  /\ a.RoleName = b.RoleName
  /\ a.Region = b.Region
  /\ a.ClusterName = b.ClusterName

\* C6: in the State that BuildState returns no two RoleRecords carry the same
\* generated profile name and no two ClusterRecords carry the same generated
\* context name.
C6_NameUniqueness ==
  state # None =>
    /\ \A i, j \in 1..Len(state.Roles) :
         state.Roles[i].AWSProfile = state.Roles[j].AWSProfile => i = j
    /\ \A i, j \in 1..Len(state.Clusters) :
         state.Clusters[i].KubeContext = state.Clusters[j].KubeContext => i = j

\* C7: in the State that BuildState returns all RoleRecords with the same
\* (accountID, roleName) carry one profile name and all ClusterRecords with the
\* same (accountID, roleName, region, clusterName) carry one context name.
C7_OneNamePerIdentity ==
  state # None =>
    /\ \A a, b \in Range(state.Roles) : sameRole(a, b) => a.AWSProfile = b.AWSProfile
    /\ \A a, b \in Range(state.Clusters) : sameCluster(a, b) => a.KubeContext = b.KubeContext

\* the permutations of a sequence
SeqPermutations(s) ==
  {[i \in 1..Len(s) |-> s[p[i]]] :
     p \in {q \in [1..Len(s) -> 1..Len(s)] : \A i, j \in 1..Len(s) : q[i] = q[j] => i = j}}

\* C9: BuildState returns the same State for every permutation of the
\* Inventory's role list and cluster list.
C9_OrderIndependence ==
  state # None =>
    \A roles \in SeqPermutations(inventory.Roles) : \A clusters \in SeqPermutations(inventory.Clusters) :
      BuildState(config, [inventory EXCEPT !.Roles = roles, !.Clusters = clusters]) = state

\* the name the collision policy gives the k-th record of a base name
numbered(base, k) == IF k = 1 THEN base ELSE base \o Dash \o Itoa(k)

\* the 1-based rank of position i among the positions of bases that hold the
\* same base name
occurrence(bases, i) == Cardinality({j \in 1..i : bases[j] = bases[i]})

\* C10: among the roles (clusters) of the Inventory that derive the same base
\* name, the k-th in pre-sort order is allocated the bare base name when k = 1
\* and the base name followed by "-k" when k >= 2; the context names are the
\* ones allocated when the Inventory has no roles, and the profile names of the
\* listed roles are the ones allocated when it has no clusters.
C10_CollisionNumbering ==
  state # None =>
    LET sortedRoles    == preSortRoles(inventory.Roles)
        roleBases      == [i \in 1..Len(sortedRoles) |-> roleBase(sortedRoles[i])]
        sortedClusters == preSortClusters(inventory.Clusters)
        ctxBases       == [i \in 1..Len(sortedClusters) |-> contextBase(sortedClusters[i])]
        noRoles        == BuildState(config, [inventory EXCEPT !.Roles = <<>>])
        noClusters     == BuildState(config, [inventory EXCEPT !.Clusters = <<>>])
    IN  /\ \A i \in 1..Len(sortedRoles) :
             \E r \in Range(state.Roles) :
               /\ sameRole(r, sortedRoles[i])
               /\ r.AccountName = sortedRoles[i].AccountName
               /\ r.AWSProfile = numbered(roleBases[i], occurrence(roleBases, i))
        /\ \A i \in 1..Len(sortedClusters) :
             \E c \in Range(state.Clusters) :
               /\ sameCluster(c, sortedClusters[i])
               /\ c.AccountName = sortedClusters[i].AccountName
               /\ c.KubeContext = numbered(ctxBases[i], occurrence(ctxBases, i))
        /\ Len(state.Clusters) = Len(inventory.Clusters)
        /\ [i \in 1..Len(state.Clusters) |-> state.Clusters[i].KubeContext]
             = [i \in 1..Len(noRoles.Clusters) |-> noRoles.Clusters[i].KubeContext]
        /\ Range(noClusters.Roles) \subseteq Range(state.Roles)

\* three listed roles of one base name and two clusters of one base name were
\* named
C10_Witness ==
  /\ state # None
  /\ \E r \in Range(state.Roles) : r.AWSProfile = roleBase(r) \o Dash3
  /\ \E r \in Range(state.Roles) : r.AWSProfile = roleBase(r) \o Dash2
  /\ \E c \in Range(state.Clusters) : c.KubeContext = contextBase(c) \o Dash2
  /\ Len(inventory.Roles) = 3

\* the listed roles (clusters) of an Inventory that derive the base name of x,
\* in the order of the list
rolesOfBase(i, x) == SelectSeq(i.Roles, LAMBDA y : roleBase(y) = roleBase(x))

clustersOfBase(i, x) == SelectSeq(i.Clusters, LAMBDA y : contextBase(y) = contextBase(x))

profilesOf(s, x) == {r.AWSProfile : r \in {y \in Range(s.Roles) : sameRole(y, x)}}

contextsOf(s, x) == {c.KubeContext : c \in {y \in Range(s.Clusters) : sameCluster(y, x)}}

\* C8 as stated: the generated name of a role (cluster) that is listed with
\* unchanged attributes in two consecutive runs is the same in both, whatever
\* else the two Inventories list.
C8_NamesStableAcrossRuns ==
  (prevState # None /\ state # None) =>
    /\ \A x \in Range(inventory.Roles) \cap Range(prevInventory.Roles) :
         profilesOf(state, x) = profilesOf(prevState, x)
    /\ \A x \in Range(inventory.Clusters) \cap Range(prevInventory.Clusters) :
         contextsOf(state, x) = contextsOf(prevState, x)

\* C8 amended: the generated name of a role (cluster) that is listed with
\* unchanged attributes in two consecutive runs is the same in both when the
\* two Inventories list the same roles (clusters) of its base name in the same
\* order, whatever roles and clusters of other base names they list.
C8_NamesStableAmongSameBase ==
  (prevState # None /\ state # None) =>
    /\ \A x \in Range(inventory.Roles) \cap Range(prevInventory.Roles) :
         rolesOfBase(inventory, x) = rolesOfBase(prevInventory, x)
           => profilesOf(state, x) = profilesOf(prevState, x)
    /\ \A x \in Range(inventory.Clusters) \cap Range(prevInventory.Clusters) :
         clustersOfBase(inventory, x) = clustersOfBase(prevInventory, x)
           => contextsOf(state, x) = contextsOf(prevState, x)

\* a role that was allocated a "-2" name in both runs while the roles of
\* another base name changed between the runs
C8_Witness ==
  /\ prevState # None
  /\ state # None
  /\ \E x \in Range(inventory.Roles) \cap Range(prevInventory.Roles) :
       /\ rolesOfBase(inventory, x) = rolesOfBase(prevInventory, x)
       /\ Len(rolesOfBase(inventory, x)) = 2
       /\ inventory.Roles # prevInventory.Roles
       /\ profilesOf(state, x) = {roleBase(x) \o Dash2}
  /\ inventory.Clusters # prevInventory.Clusters

(***************************************************************************)
(* loadTokenFromCache applied to one cache directory                       *)
(***************************************************************************)

InitToken ==
  /\ \E now \in Nows :
       args \in [dir : CacheDirs(now), startURL : StartURLs, region : Regions, now : {now}]
  /\ returned = None
  /\ NoGroup
  /\ NoRun

CallLoadToken ==
  /\ returned = None
  /\ returned' = loadTokenFromCache(args.dir, args.startURL, args.region, args.now)
  /\ UNCHANGED args
  /\ UNCHANGED groupVars
  /\ UNCHANGED runVars

NextToken == CallLoadToken

SpecToken == InitToken /\ [][NextToken]_vars

\* the records of the listed directory that match the request: a readable
\* JSON file with a token, an expiry of a known layout, the start URL asked
\* for (if any) and the region asked for (if any, whatever the case)
matching(entry) ==
  /\ ~entry.IsDir
  /\ HasSuffix(entry.Name, DotJson)
  /\ entry.Readable
  /\ entry.Record # None
  /\ entry.Record.AccessToken # <<>>
  /\ entry.Record.ExpiresAt.layout \in {LayoutRFC3339, LayoutUTC, LayoutSpace}
  /\ (TrimSpace(args.startURL) # <<>> => entry.Record.StartURL = TrimSpace(args.startURL))
  /\ (TrimSpace(args.region) # <<>> =>
        ToLower(entry.Record.Region) = ToLower(TrimSpace(args.region)))

qualifying ==
  {i \in 1..Len(args.dir.entries) :
     /\ matching(args.dir.entries[i])
     /\ args.dir.entries[i].Record.ExpiresAt.at > args.now + 60}

\* C11: over a cache directory that can be listed, loadTokenFromCache never
\* returns a token whose expiry is at or before now + 60 s; when a matching
\* record expires strictly later than now + 60 s the call returns a token, the
\* token of such a record; when no matching record does, it returns
\* ErrSSONotLoggedIn
C11_TokenFreshness ==
  (returned # None /\ args.dir.listing = "ok") =>
    /\ returned.err = "" =>
         /\ returned.token.ExpiresAt > args.now + 60
         /\ \E i \in qualifying :
              /\ returned.token.AccessToken = args.dir.entries[i].Record.AccessToken
              /\ returned.token.ExpiresAt = args.dir.entries[i].Record.ExpiresAt.at
    /\ qualifying # {} => returned.err = ""
    /\ qualifying = {} => returned.err = ErrSSONotLoggedIn /\ returned.token = None

\* a call that returned the token expiring 61 s from now, over a directory that
\* also holds a matching token expiring 60 s from now
C11_Witness ==
  /\ returned # None
  /\ args.dir.listing = "ok"
  /\ returned.err = ""
  /\ returned.token.ExpiresAt = args.now + 61
  /\ \E i \in 1..Len(args.dir.entries) :
       /\ matching(args.dir.entries[i])
       /\ args.dir.entries[i].Record.ExpiresAt.at = args.now + 60

(***************************************************************************)
(* listAllClusters: one worker for each role under an errgroup with a      *)
(* limit, the calls of a worker one step each, the upstream context        *)
(***************************************************************************)

RegionEu2 == S(<<"e", "u", "2">>)

MaxGroupRoles == 2

\* g.SetLimit(8) in listAllClusters, g.SetLimit(4) in Enrich
RoleWorkerLimit == 8
ProbeLimit == 4

\* the admission test of the mutant: one worker more than the limit
mayGoAtLimit(active, limit) == active <= limit

\* g.Go starts a worker when the group runs fewer workers than its limit, and
\* blocks until then
mayGo(active, limit) == active < limit

ErrCredentials == "unable to get role credentials"

\* what the worker returns to the errgroup when getRoleCredentials failed, as
\* the mutant returns it: the error
afterCredentialsErrorReturnIt(err) == err

\* what the worker returns to the errgroup when getRoleCredentials failed:
\* it logs a warning and returns nil
afterCredentialsError(err) == NoError

\* the clusters ListClusters names for a role in a region
clustersIn(role, region) ==
  {c \in SyncClusterPool :
     c.AccountID = role.AccountID /\ c.RoleName = role.RoleName /\ c.Region = region}

\* what listClustersForRegion can return: an error when a page of ListClusters
\* fails, else the records of the clusters DescribeCluster succeeded on, in
\* the order of the listing
regionOutcomes(role, region) ==
  {[err |-> TRUE, found |-> <<>>, skipped |-> 0]}
  \cup { [err |-> FALSE,
          found |-> SortSlice(f, [i \in 1..Len(f) |-> f[i].ClusterName]),
          skipped |-> Cardinality(clustersIn(role, region)) - Len(f)] :
         f \in DistinctSeqsUpTo(clustersIn(role, region), Cardinality(clustersIn(role, region))) }

\* the workers the errgroup is running
running == {i \in DOMAIN workers : workers[i].pc \notin {"waiting", "done"}}

\* the first non-nil error a worker returned, NoError if there is none
firstError ==
  IF \E i \in DOMAIN workers : workers[i].pc = "done" /\ workers[i].err # NoError
  THEN ErrCredentials
  ELSE NoError

\* the context of errgroup.WithContext(ctx) is done when the upstream context
\* is, and when a worker has returned an error
groupCtxDone == cancelled \/ firstError # NoError

InitClusters ==
  /\ args \in [roles : DistinctSeqsUpTo(SyncRolePool, MaxGroupRoles),
               regions : {<<RegionUs1>>, <<RegionEu2, RegionUs1>>}]
  /\ returned = None
  /\ cancelled = FALSE
  /\ spawned = 0
  /\ workers = [i \in 1..Len(args.roles) |->
                  [pc |-> "waiting", region |-> 1, found |-> <<>>, soft |-> {}, err |-> NoError]]
  /\ collected = <<>>
  /\ NoRun

\* if len(roles) == 0 { return nil, nil }
ReturnNoRoles ==
  /\ returned = None
  /\ Len(args.roles) = 0
  /\ returned' = [clusters |-> <<>>, err |-> NoError]
  /\ UNCHANGED <<args, cancelled, spawned, workers, collected>>
  /\ UNCHANGED runVars

\* g.Go(func() error {...}) for the next role: it blocks while the group runs
\* as many workers as its limit
GoRole(i) ==
  /\ returned = None
  /\ i = spawned + 1
  /\ i <= Len(args.roles)
  /\ mayGo(Cardinality(running), RoleWorkerLimit)
  /\ spawned' = i
  /\ workers' = [workers EXCEPT ![i].pc = "creds"]
  /\ UNCHANGED <<args, returned, cancelled, collected>>
  /\ UNCHANGED runVars

\* creds, err := getRoleCredentials(ctx, ...): no call succeeds under a
\* context that is done
GetRoleCredentials(i, ok) ==
  /\ workers[i].pc = "creds"
  /\ ok => ~groupCtxDone
  /\ workers' = IF ok
                  THEN [workers EXCEPT ![i].pc = "list"]
                  ELSE [workers EXCEPT ![i].pc = "done",
                                       ![i].soft = @ \cup {"credentials"},
                                       ![i].err = afterCredentialsError(ErrCredentials)]
  /\ UNCHANGED <<args, returned, cancelled, spawned, collected>>
  /\ UNCHANGED runVars

\* found, err := listClustersForRegion(ctx, region, role, creds) for the next
\* region: on an error the worker logs a warning and goes on
ListRegion(i) ==
  /\ workers[i].pc = "list"
  /\ \E outcome \in regionOutcomes(args.roles[i], args.regions[workers[i].region]) :
       /\ ~outcome.err => ~groupCtxDone
       /\ workers' = [workers EXCEPT
            ![i].found = @ \o outcome.found,
            ![i].soft = @ \cup (IF outcome.err THEN {"region"} ELSE {})
                          \cup (IF outcome.skipped > 0 THEN {"describe"} ELSE {}),
            ![i].region = @ + 1,
            ![i].pc = IF workers[i].region = Len(args.regions) THEN "append" ELSE "list"]
  /\ UNCHANGED <<args, returned, cancelled, spawned, collected>>
  /\ UNCHANGED runVars

\* the append without the mutex: a worker that read the slice before another
\* worker appended writes over what that worker appended
AppendClustersUnlocked(i) ==
  /\ workers[i].pc = "append"
  /\ \E k \in 0..Len(collected) :
       collected' = SubSeq(collected, 1, k) \o workers[i].found
  /\ workers' = [workers EXCEPT ![i].pc = "done"]
  /\ UNCHANGED <<args, returned, cancelled, spawned>>
  /\ UNCHANGED runVars

\* mu.Lock(); clusters = append(clusters, roleClusters...); mu.Unlock();
\* return nil
AppendClusters(i) ==
  /\ workers[i].pc = "append"
  /\ collected' = collected \o workers[i].found
  /\ workers' = [workers EXCEPT ![i].pc = "done"]
  /\ UNCHANGED <<args, returned, cancelled, spawned>>
  /\ UNCHANGED runVars

\* if err := g.Wait(); err != nil { return nil, err }; return clusters, nil
WaitRoles ==
  /\ returned = None
  /\ Len(args.roles) > 0
  /\ spawned = Len(args.roles)
  /\ \A i \in DOMAIN workers : workers[i].pc = "done"
  /\ returned' = IF firstError # NoError
                   THEN [clusters |-> <<>>, err |-> firstError]
                   ELSE [clusters |-> collected, err |-> NoError]
  /\ UNCHANGED <<args, cancelled, spawned, workers, collected>>
  /\ UNCHANGED runVars

\* the caller cancels the context while listAllClusters is in progress: a
\* worker is still to run or running
CancelUpstream ==
  /\ returned = None
  /\ \E i \in DOMAIN workers : workers[i].pc # "done"
  /\ ~cancelled
  /\ cancelled' = TRUE
  /\ UNCHANGED <<args, returned, spawned, workers, collected>>
  /\ UNCHANGED runVars

NextClusters ==
  \/ ReturnNoRoles
  \/ \E i \in DOMAIN workers : GoRole(i)
  \/ \E i \in DOMAIN workers, ok \in BOOLEAN : GetRoleCredentials(i, ok)
  \/ \E i \in DOMAIN workers : ListRegion(i)
  \/ \E i \in DOMAIN workers : AppendClusters(i)
  \/ WaitRoles
  \/ CancelUpstream

SpecClusters == InitClusters /\ [][NextClusters]_vars

\* C13: as long as the caller does not cancel, whatever calls of whatever
\* roles fail, the context of the workers is never done, and listAllClusters
\* returns no error once every worker has run to its end, with the clusters
\* every worker found
C13_SoftFailuresNeverAbort ==
  ~cancelled =>
    /\ ~groupCtxDone
    /\ returned # None =>
         /\ returned.err = NoError
         /\ \A i \in DOMAIN workers :
              /\ workers[i].pc = "done"
              /\ \A k \in 1..Len(workers[i].found) :
                   \E n \in 1..Len(returned.clusters) :
                     returned.clusters[n] = workers[i].found[k]

\* a return after one role failed to get credentials while another role,
\* with a region that failed and a cluster that could not be described, found
\* a cluster
C13_Witness ==
  /\ ~cancelled
  /\ returned # None
  /\ Len(returned.clusters) > 0
  /\ \E i, j \in DOMAIN workers :
       /\ "credentials" \in workers[i].soft
       /\ {"region", "describe"} \subseteq workers[j].soft
       /\ Len(workers[j].found) > 0

(***************************************************************************)
(* The two errgroups under load: the role workers of listAllClusters and   *)
(* the namespace probes of Enrich, each worker one step from start to end  *)
(***************************************************************************)

MaxGroupTasks == 9

groupLimit(stage) == IF stage = "roles" THEN RoleWorkerLimit ELSE ProbeLimit

InitGroup ==
  /\ args \in [stage : {"roles", "probes"}, tasks : 0..MaxGroupTasks]
  /\ returned = None
  /\ cancelled = FALSE
  /\ spawned = 0
  /\ workers = [i \in 1..args.tasks |-> [pc |-> "waiting"]]
  /\ collected = <<>>
  /\ NoRun

\* the next g.Go of the loop over the roles, or over the clusters to probe
GoTask(i) ==
  /\ returned = None
  /\ i = spawned + 1
  /\ i <= args.tasks
  /\ mayGo(Cardinality(running), groupLimit(args.stage))
  /\ spawned' = i
  /\ workers' = [workers EXCEPT ![i].pc = "running"]
  /\ UNCHANGED <<args, returned, cancelled, collected>>
  /\ UNCHANGED runVars

\* the function of a worker returns
FinishTask(i) ==
  /\ workers[i].pc = "running"
  /\ workers' = [workers EXCEPT ![i].pc = "done"]
  /\ UNCHANGED <<args, returned, cancelled, spawned, collected>>
  /\ UNCHANGED runVars

\* g.Wait() returns when every worker has returned
WaitGroup ==
  /\ returned = None
  /\ spawned = args.tasks
  /\ \A i \in DOMAIN workers : workers[i].pc = "done"
  /\ returned' = [err |-> NoError]
  /\ UNCHANGED <<args, cancelled, spawned, workers, collected>>
  /\ UNCHANGED runVars

NextGroup ==
  \/ \E i \in DOMAIN workers : GoTask(i)
  \/ \E i \in DOMAIN workers : FinishTask(i)
  \/ WaitGroup

SpecGroup == InitGroup /\ [][NextGroup]_vars

\* C17: at no moment do more than 8 role workers of listAllClusters run, nor
\* more than 4 namespace probes of Enrich
C17_ConcurrencyCeilings ==
  /\ args.stage = "roles" => Cardinality(running) <= 8
  /\ args.stage = "probes" => Cardinality(running) <= 4

\* eight role workers run and the loop has a ninth role to start
C17_Witness ==
  /\ args.stage = "roles"
  /\ Cardinality(running) = 8
  /\ spawned < args.tasks

(***************************************************************************)
(* listRoles applied to the pages of each account                          *)
(***************************************************************************)

AccountPool == {Account(Id1, Acme), Account(Id2, Acme)}

MaxAccounts == 2
MaxPages == 2

\* the pages ListAccountRoles can return
RolePages == {ErrorPage, Page(<<RoleAdminUpper>>), Page(<<RoleAdminLower, RoleOps>>)}

PageLists(pool) == UNION {[1..n -> pool] : n \in 1..MaxPages}

InitRoles ==
  /\ args \in [accounts : DistinctSeqsUpTo(AccountPool, MaxAccounts),
               pagesOf  : [{Id1, Id2} -> PageLists(RolePages)]]
  /\ returned = None
  /\ NoGroup
  /\ NoRun

CallListRoles ==
  /\ returned = None
  /\ returned' = listRoles(args.accounts, args.pagesOf)
  /\ UNCHANGED args
  /\ UNCHANGED groupVars
  /\ UNCHANGED runVars

NextRoles == CallListRoles

SpecRoles == InitRoles /\ [][NextRoles]_vars

\* the pages of an account that listRoles asks for: those up to the first
\* page that fails
fetched(pages) ==
  {n \in 1..Len(pages) : \A k \in 1..(n - 1) : ~pages[k].err}

failedAccount(acct) ==
  \E n \in fetched(args.pagesOf[acct.ID]) : args.pagesOf[acct.ID][n].err

\* C14: listRoles returns no error; an account one of whose pages failed has
\* no RoleAccess in the result; every role of every page of the other
\* accounts is in the result
C14_FailedAccountSkipped ==
  returned # None =>
    /\ returned.err = NoError
    /\ \A a \in 1..Len(args.accounts) :
         IF failedAccount(args.accounts[a])
         THEN \A r \in 1..Len(returned.roles) :
                returned.roles[r].AccountID # args.accounts[a].ID
         ELSE \A n \in 1..Len(args.pagesOf[args.accounts[a].ID]) :
                \A k \in 1..Len(args.pagesOf[args.accounts[a].ID][n].items) :
                  \E r \in 1..Len(returned.roles) :
                    returned.roles[r] =
                      RoleAccess(args.accounts[a].ID, args.accounts[a].Name,
                                 args.pagesOf[args.accounts[a].ID][n].items[k])

(***************************************************************************)
(* Errors of discovery and of the namespace probe                          *)
(***************************************************************************)

\* no record of the cache directory is a matching token that expires later
\* than now + 60 s; so it is when there is no cache directory
noValidToken(cfg, dir) ==
  dir.listing = "ok" =>
    \A i \in 1..Len(dir.entries) :
      LET e == dir.entries[i]
      IN  ~(/\ ~e.IsDir /\ HasSuffix(e.Name, DotJson) /\ e.Readable /\ e.Record # None
            /\ e.Record.AccessToken # <<>>
            /\ e.Record.ExpiresAt.layout \in {LayoutRFC3339, LayoutUTC, LayoutSpace}
            /\ e.Record.StartURL = cfg.SSOStartURL
            /\ ToLower(e.Record.Region) = cfg.SSORegion
            /\ e.Record.ExpiresAt.at > SyncNow + 60)

\* C12: a RunSync that finds no valid cached token, the user who never logged
\* in included, returns the login-required error with the message ending in
\* "Run: rift auth" and leaves the three files as they were
C12_LoginRequired ==
  (failure # None /\ noValidToken(config, failure.dir)) =>
     /\ failure.Err.is = ErrSSOLoginRequired
     /\ failure.Err.message = LoginRequiredMessage
     /\ awsFile = failure.pre.aws
     /\ kubeFile = failure.pre.kube
     /\ stateFile = failure.pre.saved

\* C15: a RunSync in which a page of the account listing fails returns the
\* error of listAccounts and leaves the three files as they were, and no
\* RunSync goes on to BuildState and the reconcilers after such a page
C15_AccountListingFailureIsFatal ==
  /\ (failure # None /\ \E k \in 1..Len(failure.pages) : failure.pages[k].err) =>
       /\ failure.Err.is = ErrListAccounts
       /\ awsFile = failure.pre.aws
       /\ kubeFile = failure.pre.kube
       /\ stateFile = failure.pre.saved
  /\ run # None => \A k \in 1..Len(run.pages) : ~run.pages[k].err

\* a RunSync that failed on the second page of accounts, after a sync had
\* written the user's files
C15_Witness ==
  /\ failure # None
  /\ failure.Err.is = ErrListAccounts
  /\ Len(failure.pages) = 2
  /\ world = "used"
  /\ run # None
  /\ ~run.DryRun
  /\ stateFile # None

\* C16: when the caller cancels the context while listAllClusters is in
\* progress, listAllClusters returns an error
C16_CancellationPropagates ==
  (returned # None /\ cancelled) => returned.err # NoError

\* the State of the run as BuildState returned it, before Enrich
built == syncStates[<<config, inventory>>]

\* the clusters of the run whose probe failed, and those whose probe returned
failedProbes ==
  {i \in 1..Len(built.Clusters) : probed(built.Clusters[i]) /\ run.outcomes[i].err}

answeredProbes ==
  {i \in 1..Len(built.Clusters) : probed(built.Clusters[i]) /\ ~run.outcomes[i].err}

enrichDone == run # None /\ pc # "built" /\ config.DiscoverNamespaces

\* C18: after Enrich, each cluster whose probe failed has the Namespaces it
\* had before the call, Errors counts exactly those clusters, and
\* ClustersUpdated counts none of them
C18_FailedProbeLeavesNamespaces ==
  enrichDone =>
    /\ \A i \in failedProbes : state.Clusters[i].Namespaces = built.Clusters[i].Namespaces
    /\ run.NS.Errors = Cardinality(failedProbes)
    /\ run.NS.ClustersUpdated <= Cardinality(answeredProbes)

\* Enrich has returned with one probe failed and one cluster updated
C18_Witness ==
  /\ enrichDone
  /\ pc = "enriched"
  /\ Cardinality(failedProbes) = 1
  /\ run.NS.Errors = 1
  /\ run.NS.ClustersUpdated = 1

\* C19: when a sync has saved a State, each cluster of it whose probe failed
\* in this sync has, in the State this sync saved, every namespace it had in
\* the State file the sync found
C19_NamespacesSurviveFailedProbe ==
  (syncDone /\ config.DiscoverNamespaces /\ pre.saved # None) =>
    \A i \in failedProbes :
      \A j \in 1..Len(pre.saved.Clusters) :
        sameCluster(pre.saved.Clusters[j], built.Clusters[i]) =>
          \E k \in 1..Len(stateFile.Clusters) :
            /\ sameCluster(stateFile.Clusters[k], built.Clusters[i])
            /\ Range(pre.saved.Clusters[j].Namespaces) \subseteq Range(stateFile.Clusters[k].Namespaces)

\* C20: a non-dry-run RunSync that has its State and goes on to the namespace
\* probes, whichever of them fail, comes to its end with no error, the two
\* stores reconciled against the State and the State saved
C20_ProbeFailuresDoNotBlockSync ==
  (pc = "built" /\ ~run.DryRun /\ config.DiscoverNamespaces)
    ~> (/\ pc = "idle"
        /\ failure = None
        /\ run # None
        /\ run.NS.Enabled
        /\ awsFile = awsconfigSync(pre.aws, config, state, FALSE).disk
        /\ kubeFile = kubeconfigSync(pre.kube, state, FALSE).disk
        /\ stateFile = Save(state))

\* a sync in which every probe failed has added profiles and contexts and
\* saved the State
C20_Witness ==
  /\ syncDone
  /\ failure = None
  /\ config.DiscoverNamespaces
  /\ run.NS.ClustersTried = 2
  /\ run.NS.Errors = 2
  /\ run.AWS.Added > 0
  /\ run.Kube.AddedContexts > 0
  /\ stateFile = Save(state)

(***************************************************************************)
(* The counts of the two reconcilers                                       *)
(***************************************************************************)

\* awsconfig.Sync of the run has returned; kubeconfig.Sync has returned
awsRan == run # None /\ pc \in {"awsDone", "kubeDone", "idle"}
kubeRan == run # None /\ pc \in {"kubeDone", "idle"}

\* the profile store and the cluster-client store as the run found them
profilesBefore == loadINI(pre.aws)
contextsBefore == loadConfig(pre.kube)

\* the desired records of the run by entry name
desiredProfiles == awsDesired(state.Roles, Len(state.Roles))
desiredContexts == kubeDesired(state.Clusters, Len(state.Clusters))

\* the fields Sync gives the section of a role
profileFields(role) ==
  ("sso_session" :> Rift) @@ ("sso_account_id" :> role.AccountID)
  @@ ("sso_role_name" :> role.RoleName) @@ ("output" :> Json)
  @@ (IF defaultRegion(config) # <<>> THEN "region" :> defaultRegion(config) ELSE EmptyMap)

\* the section of the profile existed before the call, and one of the fields
\* of the role was missing from it or had another value
profileExisted(profile) == (ProfileSpace \o profile) \in DOMAIN profilesBefore

profileChanged(profile) ==
  LET sec == profilesBefore[ProfileSpace \o profile]
      want == profileFields(desiredProfiles[profile])
  IN  \E key \in DOMAIN want : key \notin DOMAIN sec \/ sec[key] # want[key]

\* the owned sections no desired record names
profilesDeleted ==
  {name \in DOMAIN profilesBefore :
     HasPrefix(name, riftProfilePrefix) /\ TrimPrefix(name, ProfileSpace) \notin DOMAIN desiredProfiles}

\* the counts of awsconfig.Sync are the counts of the desired records
awsCountsExact ==
  /\ run.AWS.Added = Cardinality({p \in DOMAIN desiredProfiles : ~profileExisted(p)})
  /\ run.AWS.Updated = Cardinality({p \in DOMAIN desiredProfiles : profileExisted(p) /\ profileChanged(p)})
  /\ run.AWS.Removed = Cardinality(profilesDeleted)

contextExisted(ctxName) == ctxName \in DOMAIN contextsBefore.Contexts

\* one of the three entries of the context differs from the desired one
contextChanged(ctxName) ==
  LET cluster == desiredContexts[ctxName]
  IN  \/ MapGet(contextsBefore.Clusters, ctxName, Nil) # desiredCluster(cluster)
      \/ ~userEqual(MapGet(contextsBefore.AuthInfos, ctxName, Nil), desiredUser(cluster))
      \/ contextsBefore.Contexts[ctxName] # desiredContext(cluster, ctxName)

contextsDeleted ==
  {ctxName \in DOMAIN contextsBefore.Contexts :
     HasPrefix(ctxName, RiftDash) /\ ctxName \notin DOMAIN desiredContexts}

\* the counts of kubeconfig.Sync are the counts of the desired records
kubeCountsExact ==
  /\ run.Kube.AddedContexts = Cardinality({c \in DOMAIN desiredContexts : ~contextExisted(c)})
  /\ run.Kube.UpdatedContexts = Cardinality({c \in DOMAIN desiredContexts : contextExisted(c) /\ contextChanged(c)})
  /\ run.Kube.RemovedContexts = Cardinality(contextsDeleted)

\* C21: the counts each reconciler returns are those of the desired records:
\* Added the records with no entry before the call, Updated the records whose
\* entry existed and had a field changed, Removed the owned entries deleted
C21_DiffCounts ==
  /\ awsRan => awsCountsExact
  /\ kubeRan => kubeCountsExact

C21_KubeCounts == kubeRan => kubeCountsExact

\* the profile sections apart, the counts of awsconfig.Sync are exact
C21_AwsCountsButSession ==
  awsRan =>
    /\ run.AWS.Added = Cardinality({p \in DOMAIN desiredProfiles : ~profileExisted(p)})
    /\ run.AWS.Removed = Cardinality(profilesDeleted)
    /\ run.AWS.Updated = Cardinality({p \in DOMAIN desiredProfiles : profileExisted(p) /\ profileChanged(p)})
                         + (IF ensureSSOSession(profilesBefore, config).changed THEN 1 ELSE 0)

(***************************************************************************)
(* kubeconfig.Sync applied to one cluster-client store                     *)
(***************************************************************************)

\* the context names BuildState gives the clusters of the runs
GeneratedContexts ==
  UNION {DOMAIN kubeDesired(syncStates[k].Clusters, Len(syncStates[k].Clusters)) : k \in DOMAIN syncStates}

\* the names a store can hold besides the user's minikube
StoreContexts == {RiftMine} \cup GeneratedContexts

\* a store with the user's minikube, the contexts ctxs as an earlier tool left
\* them, and current-context cur
Store(ctxs, cur) ==
  [Clusters  |-> [n \in {Minikube} \cup ctxs |-> userCluster(Endpoint2)],
   AuthInfos |-> [n \in {Minikube} \cup ctxs |-> userAuth(Secret)],
   Contexts  |-> [n \in {Minikube} \cup ctxs |-> userContext(n)],
   CurrentContext |-> cur]

\* no file; or a file whose current-context is empty, the user's context, an
\* owned context, or a name with no context
KubeStores ==
  {None} \cup
  { Store(ctxs, cur) :
      ctxs \in {c \in SUBSET StoreContexts : Cardinality(c) <= 1},
      cur \in {<<>>, Minikube, RiftGone} \cup StoreContexts }

InitKube ==
  /\ config \in Configs
  /\ inventory \in Discovered
  /\ state = syncStates[<<config, inventory>>]
  /\ kubeFile \in KubeStores
  /\ pc = "idle"
  /\ prevInventory = None
  /\ prevState = None
  /\ world = None
  /\ awsFile = None
  /\ stateFile = None
  /\ run = None
  /\ pre = None
  /\ failure = None
  /\ NoAux

CallKubeSync(dryRun) ==
  /\ pc = "idle"
  /\ pc' = "kubeDone"
  /\ pre' = [kube |-> kubeFile]
  /\ \E r \in {kubeconfigSync(kubeFile, state, dryRun)} :
       /\ kubeFile' = r.disk
       /\ run' = [DryRun |-> dryRun, Kube |-> r.result]
  /\ UNCHANGED <<config, inventory, state, prevInventory, prevState, world,
                 awsFile, stateFile, failure>>
  /\ UNCHANGED auxVars

NextKube == \E dryRun \in BOOLEAN : CallKubeSync(dryRun)

SpecKube == InitKube /\ [][NextKube]_vars

\* the contexts of the store that are left after the removal step
contextsKept == DOMAIN contextsBefore.Contexts \ contextsDeleted

\* C22: after a kubeconfig.Sync that wrote the store, a current-context that
\* named a context left after the removal step is as it was; one that was
\* empty or named no such context names, when there is a desired record, an
\* owned context of the store
C22_CurrentContextRepointedOnlyIfInvalid ==
  (kubeRan /\ ~run.DryRun) =>
    IF contextsBefore.CurrentContext \in contextsKept
      THEN kubeFile.CurrentContext = contextsBefore.CurrentContext
      ELSE desiredContexts # EmptyMap =>
             /\ kubeFile.CurrentContext \in DOMAIN kubeFile.Contexts
             /\ HasPrefix(kubeFile.CurrentContext, RiftDash)

\* the user's current-context was kept while contexts were added, and a
\* current-context whose owned context was removed was repointed
C22_Witness ==
  /\ kubeRan
  /\ ~run.DryRun
  /\ pre.kube # None
  /\ pre.kube.CurrentContext = Minikube
  /\ kubeFile.CurrentContext = Minikube
  /\ run.Kube.AddedContexts > 0

C22_WitnessRepointed ==
  /\ kubeRan
  /\ ~run.DryRun
  /\ pre.kube # None
  /\ pre.kube.CurrentContext = RiftMine
  /\ RiftMine \in DOMAIN pre.kube.Contexts
  /\ run.Kube.RemovedContexts = 1
  /\ kubeFile.CurrentContext \in DOMAIN desiredContexts

(***************************************************************************)
(* The roles BuildState completes the State with                           *)
(***************************************************************************)

\* the State has a RoleRecord of the role of the cluster under its profile
hasProfileRecord(cluster) ==
  \E i \in 1..Len(state.Roles) :
    /\ state.Roles[i].AccountID = cluster.AccountID
    /\ state.Roles[i].RoleName = cluster.RoleName
    /\ state.Roles[i].AWSProfile = cluster.AWSProfile

\* the role of the cluster is in the role list of the Inventory
roleListed(cluster) ==
  \E i \in 1..Len(inventory.Roles) :
    /\ inventory.Roles[i].AccountID = cluster.AccountID
    /\ inventory.Roles[i].RoleName = cluster.RoleName

\* C23: in the State BuildState returns, the profile name of each
\* ClusterRecord is not empty and is the profile name of a RoleRecord of the
\* State with the cluster's account ID and role name
C23_DefensiveCompletion ==
  state # None =>
    \A i \in 1..Len(state.Clusters) :
      /\ state.Clusters[i].AWSProfile # <<>>
      /\ hasProfileRecord(state.Clusters[i])

\* a State with two clusters, one of a role the Inventory lists twice and one
\* of a role it does not list
C23_Witness ==
  /\ state # None
  /\ Len(state.Clusters) = 2
  /\ \E i \in 1..2 : ~roleListed(state.Clusters[i]) /\ hasProfileRecord(state.Clusters[i])
  /\ \E i \in 1..2 :
       Cardinality({j \in 1..Len(inventory.Roles) :
                      /\ inventory.Roles[j].AccountID = state.Clusters[i].AccountID
                      /\ inventory.Roles[j].RoleName = state.Clusters[i].RoleName}) = 2

(***************************************************************************)
(* The State file RunSync writes                                           *)
(***************************************************************************)

\* the State of the run from its config, its Inventory and the outcomes of
\* its probes alone
derived ==
  IF config.DiscoverNamespaces THEN Enrich(built, run.outcomes).st ELSE built

\* C24: the State a non-dry-run RunSync has saved is the State derived from
\* the config, the Inventory and the probe outcomes of the run, whatever State
\* file the run found
C24_StateFullyRederived ==
  syncDone => stateFile = Save(derived)

\* a run that found the State file of an earlier run with other namespaces
\* and another Inventory
C24_Witness ==
  /\ syncDone
  /\ pre.saved # None
  /\ pre.saved.Clusters # stateFile.Clusters
  /\ pre.saved.Roles # stateFile.Roles
  /\ run.NS.ClustersUpdated > 0
  /\ stateFile = Save(derived)

(***************************************************************************)
(* state.Save on the State file, one system call a step. os.WriteFile      *)
(* opens the file with O_WRONLY|O_CREATE|O_TRUNC, writes the data and      *)
(* closes it. The file is the sequence of the blocks written to it; None   *)
(* is a path with no file.                                                 *)
(***************************************************************************)

\* json.MarshalIndent(s, "", "  ") followed by '\n': the head of the
\* document, one block for each record, the end of the document
Marshal(st) ==
  << [generated_at |-> st.GeneratedAt, regions |-> st.Regions] >>
  \o [i \in 1..Len(st.Roles) |-> [role |-> st.Roles[i]]]
  \o [i \in 1..Len(st.Clusters) |-> [cluster |-> st.Clusters[i]]]
  \o << [end |-> TRUE] >>

\* the States RunSync hands to Save
SavedStates == {syncStates[k] : k \in DOMAIN syncStates}

\* the most blocks one write system call takes
MaxWrite == 2

InitSave ==
  /\ state \in SavedStates
  /\ stateFile \in {None} \cup {[Content |-> Marshal(Save(st))] : st \in SavedStates}
  /\ pc = "idle"
  /\ run = None
  /\ pre = None
  /\ config = None
  /\ inventory = None
  /\ prevInventory = None
  /\ prevState = None
  /\ world = None
  /\ awsFile = None
  /\ kubeFile = None
  /\ failure = None
  /\ NoAux

\* s.Normalize(), MkdirAll, MarshalIndent, and the open of os.WriteFile,
\* which creates the file or truncates it
OpenTruncate ==
  /\ pc = "idle"
  /\ pc' = "open"
  /\ pre' = [saved |-> stateFile]
  /\ run' = [data |-> Marshal(Save(state)), written |-> 0]
  /\ stateFile' = [Content |-> <<>>]
  /\ UNCHANGED <<config, inventory, state, prevInventory, prevState, world,
                 awsFile, kubeFile, failure>>
  /\ UNCHANGED auxVars

\* a write system call that takes the next k blocks of the data
WriteBlocks(k) ==
  /\ pc = "open"
  /\ run.written + k <= Len(run.data)
  /\ stateFile' = [Content |-> stateFile.Content \o SubSeq(run.data, run.written + 1, run.written + k)]
  /\ run' = [run EXCEPT !.written = @ + k]
  /\ UNCHANGED <<config, inventory, state, prevInventory, prevState, world,
                 awsFile, kubeFile, pc, pre, failure>>
  /\ UNCHANGED auxVars

\* a write system call that fails (no space, I/O error): WriteFile closes
\* the file and returns the error
WriteFails ==
  /\ pc = "open"
  /\ run.written < Len(run.data)
  /\ pc' = "failed"
  /\ UNCHANGED <<config, inventory, state, prevInventory, prevState, world,
                 awsFile, kubeFile, stateFile, run, pre, failure>>
  /\ UNCHANGED auxVars

\* the process is killed or the machine stops between two system calls
Crash ==
  /\ pc = "open"
  /\ pc' = "crashed"
  /\ UNCHANGED <<config, inventory, state, prevInventory, prevState, world,
                 awsFile, kubeFile, stateFile, run, pre, failure>>
  /\ UNCHANGED auxVars

\* every block is written: WriteFile closes the file and returns nil
CloseFile ==
  /\ pc = "open"
  /\ run.written = Len(run.data)
  /\ pc' = "saved"
  /\ UNCHANGED <<config, inventory, state, prevInventory, prevState, world,
                 awsFile, kubeFile, stateFile, run, pre, failure>>
  /\ UNCHANGED auxVars

NextSave ==
  \/ OpenTruncate
  \/ \E k \in 1..MaxWrite : WriteBlocks(k)
  \/ WriteFails
  \/ Crash
  \/ CloseFile

SpecSave == InitSave /\ [][NextSave]_vars

\* C25: when Save was interrupted, by a crash or by a write that failed, the
\* State file holds all of what it held before the call or all of the new
\* State
C25_AtomicPersistence ==
  pc \in {"failed", "crashed"} =>
    \/ stateFile = pre.saved
    \/ stateFile = [Content |-> run.data]

\* a Save that returned nil has written the new State whole
C25_SavedWhole ==
  pc = "saved" => stateFile = [Content |-> Marshal(Save(state))]

(***************************************************************************)
(* awsconfig.EnsureSession and awsconfig.Sync applied in any order to one  *)
(* profile store                                                           *)
(***************************************************************************)

\* EnsureSession: the file it leaves, what it returns, and whether it wrote
EnsureSession(disk, cfg, dryRun) ==
  TheOnly({ [disk    |-> IF ~r.changed \/ dryRun THEN disk ELSE [Sections |-> r.file],
             changed |-> r.changed,
             wrote   |-> r.changed /\ ~dryRun] :
            r \in {ensureSSOSession(loadINI(disk), cfg)} })

NewURL == S(<<"h", "t", "t", "p", "s", ":", "/", "/", "n", "e", "w">>)

\* the configs of the runs and one with another start URL and SSO region
SessionConfigs ==
  Configs \cup
  { [SSOStartURL |-> NewURL, SSORegion |-> RegionEu2, Regions |-> <<RegionUs1>>,
     NamespaceDefaults |-> EmptyMap, DiscoverNamespaces |-> FALSE] }

\* what Discover returns to the Syncs: no role, or one role and its cluster
SessionInventories == {inv \in Discovered : Len(inv.Roles) <= 1 /\ Len(inv.Clusters) = Len(inv.Roles)}

InitSession ==
  /\ world \in Worlds
  /\ awsFile = WorldAws[world]
  /\ pc = "idle"
  /\ run = None
  /\ pre = None
  /\ config = None
  /\ state = None
  /\ inventory = None
  /\ prevInventory = None
  /\ prevState = None
  /\ kubeFile = None
  /\ stateFile = None
  /\ failure = None
  /\ NoAux

\* the call before this one, if it wrote the store
lastWrite == IF run # None /\ ~run.DryRun THEN [cfg |-> config] ELSE None

CallEnsureSession(cfg, dryRun) ==
  /\ pc = "idle"
  /\ config' = cfg
  /\ pre' = [aws |-> awsFile, last |-> lastWrite]
  /\ \E r \in {EnsureSession(awsFile, cfg, dryRun)} :
       /\ awsFile' = r.disk
       /\ run' = [op |-> "EnsureSession", DryRun |-> dryRun, changed |-> r.changed, wrote |-> r.wrote]
  /\ UNCHANGED <<inventory, state, prevInventory, prevState, world, kubeFile, stateFile, pc, failure>>
  /\ UNCHANGED auxVars

CallAwsSync(cfg, inv, dryRun) ==
  /\ pc = "idle"
  /\ config' = cfg
  /\ inventory' = inv
  /\ pre' = [aws |-> awsFile, last |-> lastWrite]
  /\ \E st \in {BuildState(cfg, inv)} :
     \E r \in {awsconfigSync(awsFile, cfg, st, dryRun)} :
       /\ state' = st
       /\ awsFile' = r.disk
       /\ run' = [op |-> "Sync", DryRun |-> dryRun, changed |-> r.result.Updated > 0, wrote |-> ~dryRun]
  /\ UNCHANGED <<prevInventory, prevState, world, kubeFile, stateFile, pc, failure>>
  /\ UNCHANGED auxVars

NextSession ==
  \/ \E cfg \in SessionConfigs, dryRun \in BOOLEAN : CallEnsureSession(cfg, dryRun)
  \/ \E cfg \in SessionConfigs, inv \in SessionInventories, dryRun \in BOOLEAN :
       CallAwsSync(cfg, inv, dryRun)

SpecSession == InitSession /\ [][NextSession]_vars

\* the session section of the store carries the three values of cfg
sessionOf(disk, cfg) ==
  /\ disk # None
  /\ ssoSessionSection \in DOMAIN disk.Sections
  /\ LET sec == disk.Sections[ssoSessionSection]
     IN  /\ {"sso_start_url", "sso_region", "sso_registration_scopes"} \subseteq DOMAIN sec
         /\ sec["sso_start_url"] = cfg.SSOStartURL
         /\ sec["sso_region"] = cfg.SSORegion
         /\ sec["sso_registration_scopes"] = SsoScopes

SlugBytes == {97, 65, 57, 45, 32, 9, 95}

MaxSlugLen == 4

\* names whose slug is the fallback word itself
SlugWords ==
  { Unknown,
    S(<<" ", "U", "n", "k", "n", "o", "w", "n", "!">>) }

SlugInputs == SeqsUpTo(SlugBytes, MaxSlugLen) \cup SlugWords

InitSlug ==
  /\ args \in [input : SlugInputs]
  /\ returned = None
  /\ NoGroup
  /\ NoRun

CallSlug ==
  /\ returned = None
  /\ \E slug \in {Slug(args.input)} :
       returned' = [slug |-> slug, again |-> Slug(slug)]
  /\ UNCHANGED args
  /\ UNCHANGED groupVars
  /\ UNCHANGED runVars

NextSlug == CallSlug

SpecSlug == InitSlug /\ [][NextSlug]_vars

\* the input, lower-cased, has a byte of [a-z0-9]
hasSlugByte(s) == \E i \in 1..Len(s) : IsSlugByte(ToLower(s)[i])

\* runs of [a-z0-9] with one hyphen between two runs and none at the ends
wellFormedSlug(s) ==
  /\ s # <<>>
  /\ \A i \in 1..Len(s) : IsSlugByte(s[i]) \/ s[i] = 45
  /\ s[1] # 45
  /\ s[Len(s)] # 45
  /\ \A i \in 1..(Len(s) - 1) : ~(s[i] = 45 /\ s[i + 1] = 45)

\* the maximal runs of [a-z0-9] of s, in order
RECURSIVE slugRuns(_)
slugRuns(s) ==
  IF s = <<>> THEN <<>>
  ELSE IF ~IsSlugByte(Head(s)) THEN slugRuns(Tail(s))
  ELSE LET n == CHOOSE k \in 1..Len(s) :
                  /\ \A j \in 1..k : IsSlugByte(s[j])
                  /\ (k < Len(s) => ~IsSlugByte(s[k + 1]))
       IN  <<SubSeq(s, 1, n)>> \o slugRuns(SubSeq(s, n + 1, Len(s)))

\* C27: Slug returns the word unknown exactly when the lower-cased input has
\* no byte of [a-z0-9], and otherwise runs of [a-z0-9] with single hyphens
\* between them and none at the ends; Slug of the result is the result
C27_SlugNormalizes ==
  returned # None =>
    /\ (returned.slug = Unknown) <=> ~hasSlugByte(args.input)
    /\ returned.slug # Unknown => wellFormedSlug(returned.slug)
    /\ returned.again = returned.slug

\* C27, amended: Slug returns the word unknown when the lower-cased input
\* has no byte of [a-z0-9], and otherwise the runs of [a-z0-9] of the
\* lower-cased input with one hyphen between two runs, which is the word
\* unknown when the only run is that word; Slug of the result is the result
C27_SlugNormalizesOrIsUnknown ==
  returned # None =>
    /\ ~hasSlugByte(args.input) => returned.slug = Unknown
    /\ hasSlugByte(args.input) => returned.slug = Join(slugRuns(ToLower(args.input)), Dash)
    /\ wellFormedSlug(returned.slug)
    /\ returned.again = returned.slug

\* three runs, with several bytes outside [a-z0-9] between two of them and
\* at the ends
C27_Witness ==
  /\ returned # None
  /\ Len(args.input) = MaxSlugLen
  /\ ~IsSlugByte(args.input[1])
  /\ ~IsSlugByte(args.input[2])
  /\ args.input[3] = 65
  /\ ~IsSlugByte(args.input[4])
  /\ returned.slug = <<97>>
  /\ returned.again = <<97>>

\* the name Unknown! has a slug, the word unknown
C27_WitnessWord ==
  /\ returned # None
  /\ hasSlugByte(args.input)
  /\ returned.slug = Unknown

(***************************************************************************)
(* naming.InferEnv applied to the names of one role or cluster             *)
(***************************************************************************)

EnvWords ==
  { S(<<"a", "c", "m", "e", "-", "p", "r", "o", "d", "u", "c", "t", "i", "o", "n">>),
    S(<<"P", "R", "O", "D">>),
    S(<<"a", "c", "m", "e", "-", "s", "t", "a", "g", "i", "n", "g">>),
    S(<<"S", "t", "a", "g", "e">>),
    S(<<"D", "e", "v", "e", "l", "o", "p", "e", "r">>),
    S(<<"D", "e", "v">>),
    S(<<"d", "e", "v", "e", "l", "o", "p", "m", "e", "n", "t">>),
    S(<<"i", "n", "t", "e", "g", "r", "a", "t", "i", "o", "n">>),
    S(<<"p", "r", "i", "n", "t", "-", "s", "e", "r", "v", "i", "c", "e">>),
    S(<<"A", "d", "m", "i", "n">>),
    S(<<"s", "a", "n", "d", "b", "o", "x">>),
    S(<<"o", "p", "s">>) }

MaxParts == 2

InitInferEnv ==
  /\ args \in [parts : SeqsUpTo(EnvWords, MaxParts)]
  /\ returned = None
  /\ NoGroup
  /\ NoRun

CallInferEnv ==
  /\ returned = None
  /\ returned' = [env |-> InferEnv(args.parts)]
  /\ UNCHANGED args
  /\ UNCHANGED groupVars
  /\ UNCHANGED runVars

NextInferEnv == CallInferEnv

SpecInferEnv == InitInferEnv /\ [][NextInferEnv]_vars

\* the classes in the order of their priority, each with its substrings
EnvClasses ==
  << [env |-> EnvProd,    words |-> {EnvProd}],
     [env |-> EnvStaging, words |-> {EnvStaging, EnvStage}],
     [env |-> EnvDev,     words |-> {EnvDevelopment, EnvDev}],
     [env |-> EnvInt,     words |-> {EnvIntegration, EnvInt}] >>

\* the classes the lower-cased join of the parts matches
matched(parts) ==
  {i \in 1..Len(EnvClasses) :
     \E w \in EnvClasses[i].words : Contains(ToLower(Join(parts, Space)), w)}

C28_WitnessPrint ==
  /\ returned # None
  /\ matched(args.parts) = {4}
  /\ args.parts = <<S(<<"p", "r", "i", "n", "t", "-", "s", "e", "r", "v", "i", "c", "e">>)>>
  /\ returned.env = EnvInt

(***************************************************************************)
(* The config package: Default, Normalize, Validate, Save and Load. The    *)
(* file is the YAML document: the keys it has and their values.            *)
(***************************************************************************)

UsEast1 == S(<<"u", "s", "-", "e", "a", "s", "t", "-", "1">>)
UsWest2 == S(<<"u", "s", "-", "w", "e", "s", "t", "-", "2">>)

defaultRegions == <<UsEast1, UsWest2>>

\* config.Default()
ConfigDefault ==
  [SSOStartURL |-> <<>>, SSORegion |-> <<>>, Regions |-> defaultRegions,
   NamespaceDefaults |-> EmptyMap, DiscoverNamespaces |-> TRUE]

\* the loop of Normalize over the first n regions: lower-cased and trimmed,
\* the empty ones and those seen before left out
RECURSIVE normalizeRegionsLoop(_, _)
normalizeRegionsLoop(regions, n) ==
  IF n = 0 THEN <<>>
  ELSE TheOnly({ LET region == TrimSpace(ToLower(regions[n]))
                 IN  IF region = <<>> \/ region \in Range(before) THEN before
                     ELSE Append(before, region) :
                 before \in {normalizeRegionsLoop(regions, n - 1)} })

normalizeRegionsUnsorted(regions) ==
  LET start == IF Len(regions) = 0 THEN defaultRegions ELSE regions
      kept  == normalizeRegionsLoop(start, Len(start))
  IN  IF Len(kept) = 0 THEN defaultRegions ELSE kept

\* the regions of Normalize: the defaults for none, the loop, sort.Strings,
\* the defaults when none is left
normalizeRegions(regions) ==
  LET start  == IF Len(regions) = 0 THEN defaultRegions ELSE regions
      sorted == sortStrings(Range(normalizeRegionsLoop(start, Len(start))))
  IN  IF Len(sorted) = 0 THEN defaultRegions ELSE sorted

\* the loop of Normalize over the namespace defaults, for the first n keys
\* in the order the range over the map yields them
RECURSIVE normalizeDefaults(_, _, _)
normalizeDefaults(defaults, order, n) ==
  IF n = 0 THEN EmptyMap
  ELSE TheOnly({ LET key == TrimSpace(ToLower(order[n]))
                 IN  IF key = <<>> THEN before
                     ELSE MapPut(before, key, TrimSpace(defaults[order[n]])) :
                 before \in {normalizeDefaults(defaults, order, n - 1)} })

\* Config.Normalize when the range over NamespaceDefaults yields the keys in
\* the order given
ConfigNormalize(c, order) ==
  [SSOStartURL        |-> TrimSpace(c.SSOStartURL),
   SSORegion          |-> TrimSpace(ToLower(c.SSORegion)),
   Regions            |-> normalizeRegions(c.Regions),
   NamespaceDefaults  |-> normalizeDefaults(c.NamespaceDefaults, order, Len(order)),
   DiscoverNamespaces |-> c.DiscoverNamespaces]

\* Go fixes no order for the range over a map: every order of the keys
keyOrders(c) == SeqPermutations(sortStrings(DOMAIN c.NamespaceDefaults))

\* what Normalize can leave
NormalizeOutcomes(c) == {ConfigNormalize(c, order) : order \in keyOrders(c)}

ErrMissingStartURL == "config missing sso_start_url"
ErrMissingSSORegion == "config missing sso_region"
ErrMissingRegions == "config missing regions"

\* Config.Validate
ConfigValidate(c) ==
  IF c.SSOStartURL = <<>> THEN ErrMissingStartURL
  ELSE IF c.SSORegion = <<>> THEN ErrMissingSSORegion
  ELSE IF Len(c.Regions) = 0 THEN ErrMissingRegions
  ELSE NoError

\* yaml.Marshal(cfg): every field of Config under its yaml key
yamlMarshal(c) ==
  [sso_start_url |-> c.SSOStartURL, sso_region |-> c.SSORegion, regions |-> c.Regions,
   namespace_defaults |-> c.NamespaceDefaults, discover_namespaces |-> c.DiscoverNamespaces]

\* yaml.Unmarshal(bytes, &cfg): a key of the document replaces the field of
\* cfg, a mapping is merged into the map the field holds, a field with no key
\* keeps its value
yamlUnmarshal(doc, into) ==
  [SSOStartURL        |-> IF "sso_start_url" \in DOMAIN doc THEN doc.sso_start_url ELSE into.SSOStartURL,
   SSORegion          |-> IF "sso_region" \in DOMAIN doc THEN doc.sso_region ELSE into.SSORegion,
   Regions            |-> IF "regions" \in DOMAIN doc THEN doc.regions ELSE into.Regions,
   NamespaceDefaults  |-> IF "namespace_defaults" \in DOMAIN doc
                          THEN doc.namespace_defaults @@ into.NamespaceDefaults
                          ELSE into.NamespaceDefaults,
   DiscoverNamespaces |-> IF "discover_namespaces" \in DOMAIN doc THEN doc.discover_namespaces
                          ELSE into.DiscoverNamespaces]

\* config.Save with the Config as Normalize left it: the error and the file
ConfigSave(normalized) ==
  IF ConfigValidate(normalized) # NoError
  THEN [err |-> ConfigValidate(normalized), file |-> None]
  ELSE [err |-> NoError, file |-> yamlMarshal(normalized)]

\* config.Load up to Normalize: the Config unmarshalled over Default()
ConfigRead(file) == yamlUnmarshal(file, ConfigDefault)

(***************************************************************************)
(* config.Save of one Config, then config.Load of the file                 *)
(***************************************************************************)

RegionWords ==
  { RegionUs1, S(<<" ", "U", "S", "1">>), RegionEu2, S(<<" ">>) }

MaxRegions == 2

DefaultKeys ==
  { EnvDev, S(<<"D", "e", "v", " ">>), S(<<" ">>) }

DefaultValues ==
  { NsApps, S(<<" ", "s", "y", "s", " ">>) }

MaxDefaults == 2

\* the Configs handed to Save
SaveConfigs ==
  [SSOStartURL        : {S(<<" ", "h", "t", "t", "p", "s", ":", "/", "/", "s", "s", "o", " ">>), S(<<" ">>)},
   SSORegion          : {S(<<" ", "U", "S", "1", " ">>), <<>>},
   Regions            : SeqsUpTo(RegionWords, MaxRegions),
   NamespaceDefaults  : UNION {[keys -> DefaultValues] :
                                 keys \in {k \in SUBSET DefaultKeys : Cardinality(k) <= MaxDefaults}},
   DiscoverNamespaces : BOOLEAN]

InitConfig ==
  /\ args \in [cfg : SaveConfigs]
  /\ returned = None
  /\ NoGroup
  /\ NoRun

\* Save(path, cfg), and Load(path) when Save returned no error
CallSaveThenLoad ==
  /\ returned = None
  /\ \E normalized \in NormalizeOutcomes(args.cfg) :
     \E saved \in {ConfigSave(normalized)} :
       IF saved.err # NoError
       THEN returned' = [err |-> saved.err, file |-> None, normalized |-> normalized,
                         loaded |-> None, loadErr |-> NoError]
       ELSE \E loaded \in NormalizeOutcomes(ConfigRead(saved.file)) :
              returned' = [err |-> NoError, file |-> saved.file, normalized |-> normalized,
                           loaded |-> loaded, loadErr |-> ConfigValidate(loaded)]
  /\ UNCHANGED args
  /\ UNCHANGED groupVars
  /\ UNCHANGED runVars

NextConfig == CallSaveThenLoad

SpecConfig == InitConfig /\ [][NextConfig]_vars

\* a name lower-cased and trimmed
lowerTrimmed(s) == TrimSpace(ToLower(s))

\* n is a normalized form of c
normalizedFormOf(n, c) ==
  /\ n.SSOStartURL = TrimSpace(c.SSOStartURL)
  /\ n.SSORegion = lowerTrimmed(c.SSORegion)
  /\ n.DiscoverNamespaces = c.DiscoverNamespaces
  /\ Len(n.Regions) > 0
  /\ \A i \in 1..(Len(n.Regions) - 1) : StrLess(n.Regions[i], n.Regions[i + 1])
  /\ LET named == {lowerTrimmed(c.Regions[i]) : i \in 1..Len(c.Regions)} \ {<<>>}
     IN  Range(n.Regions) = IF named = {} THEN Range(defaultRegions) ELSE named
  /\ DOMAIN n.NamespaceDefaults = {lowerTrimmed(k) : k \in DOMAIN c.NamespaceDefaults} \ {<<>>}
  /\ \A key \in DOMAIN n.NamespaceDefaults :
       \E k \in DOMAIN c.NamespaceDefaults :
         lowerTrimmed(k) = key /\ n.NamespaceDefaults[key] = TrimSpace(c.NamespaceDefaults[k])

\* C29: Save accepts a Config whose start URL and SSO region are not blank;
\* Load of the file it wrote returns no error and the Config Save wrote, a
\* normalized form of the Config given: SSO region and regions lower-cased
\* and trimmed, regions without repeats, sorted and not empty, the defaults
\* when none is named, the keys of the namespace defaults lower-cased; and
\* Normalize leaves that Config as it is
C29_ConfigRoundTrip ==
  returned # None =>
    /\ returned.err = NoError <=>
         (TrimSpace(args.cfg.SSOStartURL) # <<>> /\ TrimSpace(args.cfg.SSORegion) # <<>>)
    /\ returned.err = NoError =>
         /\ returned.loadErr = NoError
         /\ returned.loaded = returned.normalized
         /\ normalizedFormOf(returned.loaded, args.cfg)
         /\ NormalizeOutcomes(returned.loaded) = {returned.loaded}

\* a Config with a region named twice in two spellings and two keys of the
\* namespace defaults that differ in case only, saved and loaded
C29_Witness ==
  /\ returned # None
  /\ returned.err = NoError
  /\ args.cfg.Regions = <<RegionEu2, S(<<" ", "U", "S", "1">>)>>
  /\ returned.loaded.Regions = <<RegionEu2, RegionUs1>>
  /\ Cardinality(DOMAIN args.cfg.NamespaceDefaults) = 2
  /\ DOMAIN returned.loaded.NamespaceDefaults = {EnvDev}
  /\ returned.loaded.SSORegion = RegionUs1
  /\ ~returned.loaded.DiscoverNamespaces

(***************************************************************************)
(* The accumulator of listAllClusters                                      *)
(***************************************************************************)

\* how many times x is in the sequence s
occurrences(s, x) == Cardinality({i \in 1..Len(s) : s[i] = x})

\* how many times x is in what the first n workers found: the clusters that
\* DescribeCluster succeeded on, of the regions ListClusters succeeded in,
\* of the roles getRoleCredentials succeeded for
RECURSIVE foundTimes(_, _)
foundTimes(x, n) ==
  IF n = 0 THEN 0 ELSE foundTimes(x, n - 1) + occurrences(workers[n].found, x)

\* C30: whatever the order the workers run and append in, the list
\* listAllClusters returns has each cluster record as many times as the
\* workers found it, which is once or never
C30_NoContributionLostOrDuplicated ==
  (returned # None /\ Len(args.roles) > 0) =>
    /\ returned.err = NoError
    /\ \A x \in SyncClusterPool :
         /\ occurrences(returned.clusters, x) = foundTimes(x, Len(args.roles))
         /\ occurrences(returned.clusters, x) <= 1
    /\ \A n \in 1..Len(returned.clusters) : returned.clusters[n] \in SyncClusterPool

\* two workers found a cluster each, and the worker of the second role
\* appended first
C30_Witness ==
  /\ returned # None
  /\ Len(args.roles) = 2
  /\ Len(workers[1].found) = 1
  /\ Len(workers[2].found) = 1
  /\ returned.clusters = workers[2].found \o workers[1].found

(***************************************************************************)
(* namespaces.Enrich, one step for each turn of its loops and one for each *)
(* probe worker: the loop that starts the probes, the workers appending    *)
(* their outcome under the mutex in the order they finish, g.Wait and the  *)
(* loop over the outcomes                                                  *)
(***************************************************************************)

\* a cluster to probe with no default namespace, one with a default namespace,
\* and one with no endpoint
EnrichClusterPool ==
  { ClusterAccess(Id1, Acme, RoleAdminUpper, RegionUs1, ClusterWebUpper, Arn1, Endpoint1, CertA),
    ClusterAccess(Id1, Acme, RoleAdminUpper, RegionUs1, ClusterDev, Arn2, Endpoint2, CertRaw),
    ClusterAccess(Id1, Acme, RoleAdminLower, RegionUs1, ClusterDev, Arn2, <<>>, CertRaw) }

MaxEnrichClusters == 2

\* what fetchClusterNamespaces can return: an error, or the names of the
\* namespaces of the cluster, trimmed, none of them blank, sorted
FetchOutcomes ==
  { ProbeError, ProbeOk(<<>>), ProbeOk(<<NsApps>>), ProbeOk(<<NsSystem>>),
    ProbeOk(<<NsApps, NsSystem>>) }

\* the States RunSync hands to Enrich
EnrichInventories ==
  { sortInventory([GeneratedAt |-> t, Roles |-> <<>>, Clusters |-> clusters]) :
      t \in GeneratedAtValues,
      clusters \in DistinctSeqsUpTo(EnrichClusterPool, MaxEnrichClusters) }

enrichStates ==
  [k \in Configs \X EnrichInventories |-> BuildState(k[1], k[2])] @@ <<>>

\* result := Result{Enabled: true}
InitEnrich ==
  /\ config \in Configs
  /\ inventory \in EnrichInventories
  /\ state = enrichStates[<<config, inventory>>]
  /\ args = [st |-> enrichStates[<<config, inventory>>]]
  /\ pc = "go"
  /\ run = [NS |-> [ZeroNsResult EXCEPT !.Enabled = TRUE], next |-> 1]
  /\ returned = None
  /\ cancelled = FALSE
  /\ spawned = 0
  /\ workers = [i \in 1..Len(enrichStates[<<config, inventory>>].Clusters) |->
                  [pc |-> "waiting", outcome |-> ProbeError]]
  /\ collected = <<>>
  /\ prevInventory = None
  /\ prevState = None
  /\ world = None
  /\ awsFile = None
  /\ kubeFile = None
  /\ stateFile = None
  /\ pre = None
  /\ failure = None

enrichUnchanged ==
  UNCHANGED <<config, inventory, prevInventory, prevState, world, awsFile, kubeFile,
              stateFile, pre, failure, args, cancelled>>

\* if st == nil || len(st.Clusters) == 0 { return result, nil }
EnrichNoClusters ==
  /\ pc = "go"
  /\ Len(state.Clusters) = 0
  /\ pc' = "returned"
  /\ returned' = [result |-> run.NS, err |-> NoError]
  /\ UNCHANGED <<state, run, spawned, workers, collected>>
  /\ enrichUnchanged

\* one turn of the loop over st.Clusters: a cluster with no endpoint or no
\* name is passed over, for any other ClustersTried is counted and g.Go starts
\* its probe, blocking while the group runs as many probes as its limit
EnrichGo(i) ==
  /\ pc = "go"
  /\ i = spawned + 1
  /\ i <= Len(state.Clusters)
  /\ spawned' = i
  /\ IF probed(state.Clusters[i])
       THEN /\ mayGo(Cardinality(running), ProbeLimit)
            /\ run' = [run EXCEPT !.NS.ClustersTried = @ + 1]
            /\ workers' = [workers EXCEPT ![i].pc = "running"]
       ELSE UNCHANGED <<run, workers>>
  /\ UNCHANGED <<state, pc, returned, collected>>
  /\ enrichUnchanged

\* the worker of cluster i: fetchClusterNamespaces returns, the worker
\* appends the outcome under the mutex and returns nil
ProbeReturns(i, outcome) ==
  /\ workers[i].pc = "running"
  /\ workers' = [workers EXCEPT ![i].pc = "done", ![i].outcome = outcome]
  /\ collected' = Append(collected, [idx |-> i, namespaces |-> outcome.namespaces, err |-> outcome.err])
  /\ UNCHANGED <<state, pc, run, returned, spawned>>
  /\ enrichUnchanged

\* g.Wait() of a group that was given its workers and is left to itself: it
\* returns at once
EnrichWaitForNone ==
  /\ pc = "go"
  /\ Len(state.Clusters) > 0
  /\ spawned = Len(state.Clusters)
  /\ pc' = "loop"
  /\ UNCHANGED <<state, run, returned, spawned, workers, collected>>
  /\ enrichUnchanged

\* if err := g.Wait(); err != nil {...}: Wait returns when every worker has
\* returned, and every worker returns nil
EnrichWait ==
  /\ pc = "go"
  /\ Len(state.Clusters) > 0
  /\ spawned = Len(state.Clusters)
  /\ running = {}
  /\ pc' = "loop"
  /\ UNCHANGED <<state, run, returned, spawned, workers, collected>>
  /\ enrichUnchanged

\* one turn of for _, item := range outcomes
EnrichOutcome ==
  /\ pc = "loop"
  /\ run.next <= Len(collected)
  /\ \E item \in {collected[run.next]} :
       \E after \in {enrichStep([clusters |-> state.Clusters, result |-> run.NS], item, item.idx)} :
         /\ state' = [state EXCEPT !.Clusters = after.clusters]
         /\ run' = [NS |-> after.result, next |-> run.next + 1]
  /\ UNCHANGED <<pc, returned, spawned, workers, collected>>
  /\ enrichUnchanged

\* return result, nil
EnrichReturn ==
  /\ pc = "loop"
  /\ run.next > Len(collected)
  /\ pc' = "returned"
  /\ returned' = [result |-> run.NS, err |-> NoError]
  /\ UNCHANGED <<state, run, spawned, workers, collected>>
  /\ enrichUnchanged

NextEnrich ==
  \/ EnrichNoClusters
  \/ \E i \in DOMAIN workers : EnrichGo(i)
  \/ \E i \in DOMAIN workers, outcome \in FetchOutcomes : ProbeReturns(i, outcome)
  \/ EnrichWait
  \/ EnrichOutcome
  \/ EnrichReturn

SpecEnrich == InitEnrich /\ [][NextEnrich]_vars

(***************************************************************************)
(* The two groups of workers of a sync: listAllClusters and Enrich         *)
(***************************************************************************)

InitBarrier == InitClusters \/ InitEnrich

\* the specification of listAllClusters leaves pc at "idle", that of Enrich
\* never has it there
NextBarrier ==
  \/ pc = "idle" /\ ReturnNoRoles
  \/ \E i \in DOMAIN workers : pc = "idle" /\ GoRole(i)
  \/ \E i \in DOMAIN workers, ok \in BOOLEAN : pc = "idle" /\ GetRoleCredentials(i, ok)
  \/ \E i \in DOMAIN workers : pc = "idle" /\ ListRegion(i)
  \/ \E i \in DOMAIN workers : pc = "idle" /\ AppendClusters(i)
  \/ pc = "idle" /\ WaitRoles
  \/ pc = "idle" /\ CancelUpstream
  \/ pc # "idle" /\ EnrichNoClusters
  \/ \E i \in DOMAIN workers : pc # "idle" /\ EnrichGo(i)
  \/ \E i \in DOMAIN workers, outcome \in FetchOutcomes : pc # "idle" /\ ProbeReturns(i, outcome)
  \/ pc # "idle" /\ EnrichWait
  \/ pc # "idle" /\ EnrichOutcome
  \/ pc # "idle" /\ EnrichReturn

SpecBarrier == InitBarrier /\ [][NextBarrier]_vars

\* Enrich has read the outcomes, or has changed a ClusterRecord or one of
\* the counters of its outcome loop
enrichReadsOutcomes ==
  \/ pc \in {"loop", "returned"}
  \/ state # args.st
  \/ run.NS.ClustersUpdated > 0
  \/ run.NS.Errors > 0

\* C31: listAllClusters returns, and so hands its slice to the sort of
\* Discover, only when every role worker has returned, and what it returns
\* is the whole slice; Enrich reads the outcomes and changes the
\* ClusterRecords and its Updated and Errors counters only when every probe
\* it started has returned and appended its outcome
C31_WaitForAllBarrier ==
  /\ (pc = "idle" /\ returned # None) =>
       /\ \A i \in DOMAIN workers : workers[i].pc = "done"
       /\ returned.err = NoError => returned.clusters = collected
  /\ (pc # "idle" /\ enrichReadsOutcomes) =>
       /\ spawned = Len(args.st.Clusters)
       /\ running = {}
       /\ \A i \in DOMAIN workers : probed(args.st.Clusters[i]) => workers[i].pc = "done"
       /\ Len(collected) = run.NS.ClustersTried
       /\ \A i \in DOMAIN workers :
            probed(args.st.Clusters[i]) => \E k \in 1..Len(collected) : collected[k].idx = i

\* Enrich is in its outcome loop with the outcome of the second cluster
\* appended before that of the first, and has counted an update
C31_Witness ==
  /\ pc = "loop"
  /\ Len(collected) = 2
  /\ collected[1].idx = 2
  /\ collected[2].idx = 1
  /\ run.NS.ClustersUpdated = 1
  /\ state # args.st

\* listAllClusters has returned the clusters of two workers, the second of
\* which appended first
C31_WitnessClusters ==
  /\ pc = "idle"
  /\ returned # None
  /\ Len(workers) = 2
  /\ Len(workers[1].found) > 0
  /\ Len(workers[2].found) > 0
  /\ returned.clusters = workers[2].found \o workers[1].found

(***************************************************************************)
(* The sort at the end of Discover applied to the clusters listAllClusters *)
(* returned, in the order the workers appended them                        *)
(***************************************************************************)

AcmeEu == S(<<"a", "c", "m", "e", "-", "e", "u">>)

\* clusters of two accounts, two roles, two regions and two names; the name
\* of one account begins with the name of the other, and so for the roles
SortClusterPool ==
  { ClusterAccess(IF account = Acme THEN Id1 ELSE Id2, account, role, region, name,
                  Arn1, Endpoint1, CertA) :
      account \in {Acme, AcmeEu}, role \in {RoleAdminLower, RoleAdmin2},
      region \in {RegionUs1, RegionEu2}, name \in {ClusterWebLower, ClusterDev} }

MaxSortClusters == 2

InitDiscoverSort ==
  /\ args \in [clusters : DistinctSeqsUpTo(SortClusterPool, MaxSortClusters)]
  /\ returned = None
  /\ NoGroup
  /\ NoRun

\* inv.Clusters = clusters; sort.Slice(inv.Roles, ...); sort.Slice(inv.Clusters, ...);
\* return inv, nil
CallDiscoverSort ==
  /\ returned = None
  /\ returned' = sortInventory([GeneratedAt |-> 1, Roles |-> <<>>, Clusters |-> args.clusters])
  /\ UNCHANGED args
  /\ UNCHANGED groupVars
  /\ UNCHANGED runVars

NextDiscoverSort == CallDiscoverSort

SpecDiscoverSort == InitDiscoverSort /\ [][NextDiscoverSort]_vars

\* the order of two tuples of strings, compared component by component
RECURSIVE tupleLess(_, _)
tupleLess(a, b) ==
  IF a = <<>> THEN FALSE
  ELSE \/ StrLess(Head(a), Head(b))
       \/ Head(a) = Head(b) /\ tupleLess(Tail(a), Tail(b))

clusterTuple(c) == <<c.AccountName, c.RoleName, c.Region, c.ClusterName>>

\* C32: the clusters Discover returns are in ascending order of
\* (accountName, roleName, region, clusterName), compared component by
\* component
C32_SortedByTuple ==
  returned # None =>
    \A i, j \in 1..Len(returned.Clusters) :
      i < j => ~tupleLess(clusterTuple(returned.Clusters[j]), clusterTuple(returned.Clusters[i]))

\* what Discover does give: the clusters it was handed, in ascending order of
\* the four names joined with "|", whatever order they were appended in
C32_SortedByJoinedKey ==
  returned # None =>
    /\ Len(returned.Clusters) = Len(args.clusters)
    /\ Range(returned.Clusters) = Range(args.clusters)
    /\ \A i, j \in 1..Len(returned.Clusters) :
         i < j => ~StrLess(discoverClusterKey(returned.Clusters[j]),
                           discoverClusterKey(returned.Clusters[i]))

\* no name of one cluster is the beginning of the name, in the same place, of
\* another
noNameBeginsAnother ==
  \A i, j \in 1..Len(args.clusters) : \A k \in 1..4 :
    LET a == clusterTuple(args.clusters[i])[k]
        b == clusterTuple(args.clusters[j])[k]
    IN  a = b \/ ~HasPrefix(b, a)

\* and the order is that of the tuples when no name begins another
C32_SortedByTupleUnlessPrefix ==
  (returned # None /\ noNameBeginsAnother) =>
    \A i, j \in 1..Len(returned.Clusters) :
      i < j => ~tupleLess(clusterTuple(returned.Clusters[j]), clusterTuple(returned.Clusters[i]))

(***************************************************************************)
(* The Namespaces Enrich leaves on the clusters whose probe answered       *)
(***************************************************************************)

\* the clusters Enrich was handed whose probe returned namespaces
answered ==
  {i \in DOMAIN workers : workers[i].pc = "done" /\ ~workers[i].outcome.err}

\* the names a cluster had, its default namespace and the names discovered,
\* without the blank ones
namespaceUnion(i) ==
  {ns \in Range(args.st.Clusters[i].Namespaces) \cup {args.st.Clusters[i].Namespace}
          \cup Range(workers[i].outcome.namespaces) : TrimSpace(ns) # <<>>}

strictlyAscending(names) ==
  \A a, b \in 1..Len(names) : a < b => StrLess(names[a], names[b])

\* C33: when Enrich has returned, each cluster whose probe answered has as
\* Namespaces the union of the names it had, its default namespace and the
\* names discovered, blank names left out, in ascending order and each once,
\* and ClustersUpdated is the number of those clusters whose union is not the
\* set of the names they had
C33_NamespacesMerged ==
  (pc = "returned" /\ Len(args.st.Clusters) > 0) =>
    /\ \A i \in answered :
         /\ Range(state.Clusters[i].Namespaces) = namespaceUnion(i)
         /\ strictlyAscending(state.Clusters[i].Namespaces)
    /\ returned.result.ClustersUpdated =
         Cardinality({i \in answered : namespaceUnion(i) # Range(args.st.Clusters[i].Namespaces)})

\* Enrich has returned with two probes answered: a cluster with a default
\* namespace for which that namespace and another were discovered, counted,
\* and a cluster for which nothing was discovered, not counted
C33_Witness ==
  /\ pc = "returned"
  /\ Cardinality(answered) = 2
  /\ returned.result.ClustersUpdated = 1
  /\ \E i \in answered :
       /\ args.st.Clusters[i].Namespaces = <<NsApps>>
       /\ workers[i].outcome.namespaces = <<NsApps, NsSystem>>
       /\ state.Clusters[i].Namespaces = <<NsApps, NsSystem>>
  /\ \E i \in answered :
       /\ args.st.Clusters[i].Namespaces = <<>>
       /\ state.Clusters[i].Namespaces = <<>>

\* a cluster whose default namespace is the only name discovered is not counted
C33_WitnessSameSet ==
  /\ pc = "returned"
  /\ returned.result.ClustersUpdated = 0
  /\ \E i \in answered :
       /\ args.st.Clusters[i].Namespaces = <<NsApps>>
       /\ workers[i].outcome.namespaces = <<NsApps>>

(***************************************************************************)
(* The token loadTokenFromCache selects                                    *)
(***************************************************************************)

\* the entries of the directory that hold no record: a file that cannot be
\* read, or one that is no JSON document
unusable ==
  {i \in 1..Len(args.dir.entries) :
     /\ ~args.dir.entries[i].IsDir
     /\ HasSuffix(args.dir.entries[i].Name, DotJson)
     /\ (~args.dir.entries[i].Readable \/ args.dir.entries[i].Record = None)}

\* C34: over a cache directory that can be listed, the token returned is
\* that of a record with a token, the start URL and the region asked for and
\* an expiry later than now + 60 s, and no such record expires later than it;
\* a file that cannot be read or parsed only leaves the choice to the others
C34_LatestExpirySelected ==
  (returned # None /\ args.dir.listing = "ok") =>
    /\ returned.err \in {"", ErrSSONotLoggedIn}
    /\ qualifying # {} =>
         /\ returned.err = ""
         /\ \E i \in qualifying :
              /\ returned.token.AccessToken = args.dir.entries[i].Record.AccessToken
              /\ returned.token.ExpiresAt = args.dir.entries[i].Record.ExpiresAt.at
         /\ \A i \in qualifying :
              args.dir.entries[i].Record.ExpiresAt.at <= returned.token.ExpiresAt

\* the call returned the token that expires two minutes from now, over a
\* directory that lists before it a token expiring 61 s from now and that
\* holds a file with no record
C34_Witness ==
  /\ returned # None
  /\ args.dir.listing = "ok"
  /\ returned.err = ""
  /\ returned.token.ExpiresAt = args.now + 120
  /\ unusable # {}
  /\ \E i, j \in qualifying :
       /\ i < j
       /\ args.dir.entries[i].Record.ExpiresAt.at = args.now + 61
       /\ args.dir.entries[j].Record.ExpiresAt.at = args.now + 120

(***************************************************************************)
(* The TUI (internal/cli/ui.go): uiModel.Update on key presses and on      *)
(* syncDoneMsg, and the commands runUISyncCmd returns. The program runs    *)
(* every command Update returns in a goroutine of its own and hands the    *)
(* message the command returns back to Update. A file is the sync that     *)
(* wrote it last, the logger of the App is the buffer it writes to.        *)
(***************************************************************************)

MaxSyncCmds == 2

AppLogger == [buffer |-> "stderr"]

UIKeys == {"s", "/", "esc", "q"}

InitUI ==
  /\ pc = "ui"
  /\ run = [busy |-> FALSE, modalOn |-> FALSE, searchOn |-> FALSE]
  /\ args = [Logger |-> AppLogger]
  /\ workers = <<>>
  /\ collected = <<>>
  /\ spawned = 0
  /\ cancelled = FALSE
  /\ returned = None
  /\ awsFile = None
  /\ kubeFile = None
  /\ stateFile = None
  /\ config = None
  /\ inventory = None
  /\ state = None
  /\ prevInventory = None
  /\ prevState = None
  /\ world = None
  /\ pre = None
  /\ failure = None

uiUnchanged ==
  UNCHANGED <<config, inventory, state, prevInventory, prevState, world, pre, failure,
              cancelled, returned>>

\* case tea.KeyMsg of Update: the keys go to the modal while it is open, to
\* the search field while that is open; otherwise "q" quits, "/" opens the
\* search field and "s" sets busy and returns runUISyncCmd(m.app)
PressKey(key) ==
  /\ pc = "ui"
  /\ IF run.modalOn
       THEN /\ run' = IF key \in {"esc", "q"} THEN [run EXCEPT !.modalOn = FALSE] ELSE run
            /\ UNCHANGED <<pc, workers, spawned>>
     ELSE IF run.searchOn
       THEN /\ run' = IF key = "esc" THEN [run EXCEPT !.searchOn = FALSE] ELSE run
            /\ UNCHANGED <<pc, workers, spawned>>
     ELSE IF key = "q"
       THEN /\ pc' = "quit"
            /\ UNCHANGED <<run, workers, spawned>>
     ELSE IF key = "/"
       THEN /\ run' = [run EXCEPT !.searchOn = TRUE]
            /\ UNCHANGED <<pc, workers, spawned>>
     ELSE IF key = "s"
       THEN /\ spawned < MaxSyncCmds
            /\ run' = [run EXCEPT !.busy = TRUE]
            /\ spawned' = spawned + 1
            /\ workers' = Append(workers, [pc |-> "logger", oldLogger |-> AppLogger, err |-> FALSE])
            /\ UNCHANGED pc
     ELSE UNCHANGED <<pc, run, workers, spawned>>
  /\ UNCHANGED <<args, collected, awsFile, kubeFile, stateFile>>
  /\ uiUnchanged

\* oldLogger := app.Logger; app.Logger = slog.New(... &logBuf ...)
CmdSetLogger(i) ==
  /\ pc = "ui"
  /\ workers[i].pc = "logger"
  /\ workers' = [workers EXCEPT ![i].pc = "discover", ![i].oldLogger = args.Logger]
  /\ args' = [Logger |-> [buffer |-> "logBuf", cmd |-> i]]
  /\ UNCHANGED <<pc, run, spawned, collected, awsFile, kubeFile, stateFile>>
  /\ uiUnchanged

\* app.RunSync(context.Background(), false) up to the reconcilers: it returns
\* the error of loadConfig, Discover or Enrich, or goes on
CmdDiscover(i, ok) ==
  /\ pc = "ui"
  /\ workers[i].pc = "discover"
  /\ workers' = IF ok THEN [workers EXCEPT ![i].pc = "aws"]
                ELSE [workers EXCEPT ![i].pc = "return", ![i].err = TRUE]
  /\ UNCHANGED <<pc, run, args, spawned, collected, awsFile, kubeFile, stateFile>>
  /\ uiUnchanged

\* awsconfig.Sync(awsConfigPath, cfg, st, false)
CmdAwsSync(i) ==
  /\ pc = "ui"
  /\ workers[i].pc = "aws"
  /\ awsFile' = [By |-> i]
  /\ workers' = [workers EXCEPT ![i].pc = "kube"]
  /\ UNCHANGED <<pc, run, args, spawned, collected, kubeFile, stateFile>>
  /\ uiUnchanged

\* kubeconfig.Sync(kubeConfigPath, st, false)
CmdKubeSync(i) ==
  /\ pc = "ui"
  /\ workers[i].pc = "kube"
  /\ kubeFile' = [By |-> i]
  /\ workers' = [workers EXCEPT ![i].pc = "save"]
  /\ UNCHANGED <<pc, run, args, spawned, collected, awsFile, stateFile>>
  /\ uiUnchanged

\* state.Save(a.StatePath, st)
CmdSaveState(i) ==
  /\ pc = "ui"
  /\ workers[i].pc = "save"
  /\ stateFile' = [By |-> i]
  /\ workers' = [workers EXCEPT ![i].pc = "return"]
  /\ UNCHANGED <<pc, run, args, spawned, collected, awsFile, kubeFile>>
  /\ uiUnchanged

\* return syncDoneMsg{...}, with the deferred app.Logger = oldLogger; the
\* sync may have logged warnings
CmdReturn(i, logs) ==
  /\ pc = "ui"
  /\ workers[i].pc = "return"
  /\ args' = [Logger |-> workers[i].oldLogger]
  /\ collected' = Append(collected, [err |-> workers[i].err, logs |-> logs])
  /\ workers' = [workers EXCEPT ![i].pc = "done"]
  /\ UNCHANGED <<pc, run, spawned, awsFile, kubeFile, stateFile>>
  /\ uiUnchanged

\* case syncDoneMsg of Update
HandleSyncDone ==
  /\ pc = "ui"
  /\ collected # <<>>
  /\ run' = [run EXCEPT !.busy = FALSE,
                        !.modalOn = @ \/ Head(collected).err \/ Head(collected).logs]
  /\ collected' = Tail(collected)
  /\ UNCHANGED <<pc, args, workers, spawned, awsFile, kubeFile, stateFile>>
  /\ uiUnchanged

NextUI ==
  \/ \E key \in UIKeys : PressKey(key)
  \/ \E i \in DOMAIN workers : CmdSetLogger(i)
  \/ \E i \in DOMAIN workers, ok \in BOOLEAN : CmdDiscover(i, ok)
  \/ \E i \in DOMAIN workers : CmdAwsSync(i)
  \/ \E i \in DOMAIN workers : CmdKubeSync(i)
  \/ \E i \in DOMAIN workers : CmdSaveState(i)
  \/ \E i \in DOMAIN workers, logs \in BOOLEAN : CmdReturn(i, logs)
  \/ HandleSyncDone

SpecUI == InitUI /\ [][NextUI]_vars

\* the RunSync invocations in flight
syncsInFlight ==
  {i \in DOMAIN workers : workers[i].pc \in {"discover", "aws", "kube", "save", "return"}}

\* C35: at most one RunSync invocation is in flight at any moment
C35_OneSyncAtATime == Cardinality(syncsInFlight) <= 1

\* what does hold: a sync is started by a press of the sync key only, taken
\* outside the modal and the search field, and one for each press
C35_OneSyncForEachPress ==
  [][Len(workers') > Len(workers) =>
       /\ Len(workers') = Len(workers) + 1
       /\ ~run.modalOn
       /\ ~run.searchOn
       /\ run'.busy]_vars

\* the sync key is taken while the model is busy
C35_SyncStartedWhileBusy ==
  /\ Len(workers) = 2
  /\ workers[1].pc = "aws"
  /\ workers[2].pc = "kube"
  /\ awsFile = [By |-> 2]
  /\ run.busy

(***************************************************************************)
(* The end of App.RunSync with its failures: awsconfig.Sync,               *)
(* kubeconfig.Sync and state.Save, each of which can return an error. A    *)
(* reconciler fails before it writes (the store cannot be read or parsed,  *)
(* its directory cannot be made); state.Save writes the State file one     *)
(* system call a step. The State file is the blocks written to it.         *)
(***************************************************************************)

ErrSyncAws == "sync aws config"
ErrSyncKube == "sync kubeconfig"
ErrWriteState == "write state"

\* the State files an earlier sync of the same config can have left
PersistSaved(cfg) ==
  {None} \cup {[Content |-> Marshal(Save(syncStates[<<cfg, inv>>]))] : inv \in Discovered}

\* RunSync has its State and comes to the reconcilers
InitPersist ==
  /\ config \in Configs
  /\ inventory \in Discovered
  /\ state = syncStates[<<config, inventory>>]
  /\ world \in Worlds
  /\ awsFile = WorldAws[world]
  /\ kubeFile = WorldKube[world]
  /\ stateFile \in PersistSaved(config)
  /\ pc = "enriched"
  /\ \E dryRun \in BOOLEAN : run = [DryRun |-> dryRun, data |-> <<>>, written |-> 0]
  /\ pre = [aws |-> awsFile, kube |-> kubeFile, saved |-> stateFile]
  /\ failure = None
  /\ prevInventory = None
  /\ prevState = None
  /\ NoAux

persistUnchanged ==
  /\ UNCHANGED <<config, inventory, state, prevInventory, prevState, world, pre>>
  /\ UNCHANGED auxVars

\* RunSync returns SyncReport{}, fmt.Errorf("...: %w", err)
returnError(err) ==
  /\ pc' = "returned"
  /\ failure' = [Err |-> err]

\* awsResult, err := awsconfig.Sync(awsConfigPath, cfg, st, dryRun)
PersistAwsSync(ok) ==
  /\ pc = "enriched"
  /\ IF ok
       THEN /\ \E r \in {awsconfigSync(awsFile, config, state, run.DryRun)} : awsFile' = r.disk
            /\ pc' = "awsDone"
            /\ UNCHANGED failure
       ELSE /\ returnError(ErrSyncAws)
            /\ UNCHANGED awsFile
  /\ UNCHANGED <<kubeFile, stateFile, run>>
  /\ persistUnchanged

\* kubeResult, err := kubeconfig.Sync(kubeConfigPath, st, dryRun)
PersistKubeSync(ok) ==
  /\ pc = "awsDone"
  /\ IF ok
       THEN /\ \E r \in {kubeconfigSync(kubeFile, state, run.DryRun)} : kubeFile' = r.disk
            /\ pc' = "kubeDone"
            /\ UNCHANGED failure
       ELSE /\ returnError(ErrSyncKube)
            /\ UNCHANGED kubeFile
  /\ UNCHANGED <<awsFile, stateFile, run>>
  /\ persistUnchanged

\* if !dryRun { state.Save(...) }: a dry run returns the report; MkdirAll of
\* Save can fail; else os.WriteFile opens the file, which truncates it
PersistSaveOpen(ok) ==
  /\ pc = "kubeDone"
  /\ IF run.DryRun
       THEN /\ pc' = "returned"
            /\ UNCHANGED <<stateFile, run, failure>>
     ELSE IF ok
       THEN /\ pc' = "open"
            /\ run' = [run EXCEPT !.data = Marshal(Save(state)), !.written = 0]
            /\ stateFile' = [Content |-> <<>>]
            /\ UNCHANGED failure
     ELSE /\ returnError(ErrWriteState)
          /\ UNCHANGED <<stateFile, run>>
  /\ UNCHANGED <<awsFile, kubeFile>>
  /\ persistUnchanged

\* a write system call of os.WriteFile that takes the next k blocks
PersistWrite(k) ==
  /\ pc = "open"
  /\ run.written + k <= Len(run.data)
  /\ stateFile' = [Content |-> stateFile.Content \o SubSeq(run.data, run.written + 1, run.written + k)]
  /\ run' = [run EXCEPT !.written = @ + k]
  /\ UNCHANGED <<awsFile, kubeFile, pc, failure>>
  /\ persistUnchanged

\* a write system call that fails: WriteFile closes the file and returns
\* the error, Save returns it, RunSync wraps and returns it
PersistWriteFails ==
  /\ pc = "open"
  /\ run.written < Len(run.data)
  /\ returnError(ErrWriteState)
  /\ UNCHANGED <<awsFile, kubeFile, stateFile, run>>
  /\ persistUnchanged

\* every block is written: RunSync returns the report
PersistClose ==
  /\ pc = "open"
  /\ run.written = Len(run.data)
  /\ pc' = "returned"
  /\ UNCHANGED <<awsFile, kubeFile, stateFile, run, failure>>
  /\ persistUnchanged

NextPersist ==
  \/ \E ok \in BOOLEAN : PersistAwsSync(ok)
  \/ \E ok \in BOOLEAN : PersistKubeSync(ok)
  \/ \E ok \in BOOLEAN : PersistSaveOpen(ok)
  \/ \E k \in 1..MaxWrite : PersistWrite(k)
  \/ PersistWriteFails
  \/ PersistClose

SpecPersist == InitPersist /\ [][NextPersist]_vars

\* the order of the three writes: the State file is untouched until both
\* reconcilers have returned without error, and the profile store is written
\* when kubeconfig.Sync starts
persistInOrder ==
  /\ stateFile # pre.saved => pc \in {"open", "returned"} /\ (failure # None => failure.Err = ErrWriteState)
  /\ pc \in {"enriched", "awsDone", "kubeDone"} => stateFile = pre.saved
  /\ kubeFile # pre.kube => awsFile = awsconfigSync(pre.aws, config, state, run.DryRun).disk
  /\ pc \in {"awsDone", "kubeDone", "open"} =>
       awsFile = awsconfigSync(pre.aws, config, state, run.DryRun).disk

\* C36: the State file is written only after both reconcilers have returned
\* without error, awsconfig.Sync has persisted when kubeconfig.Sync starts,
\* and whenever RunSync returns an error the State file is as it was
C36_PersistOrdering ==
  /\ persistInOrder
  /\ (pc = "returned" /\ failure # None) => stateFile = pre.saved

\* what holds: the order of the writes, and the State file is as it was when
\* RunSync returns an error of a reconciler
C36_StateWrittenLast ==
  /\ persistInOrder
  /\ (pc = "returned" /\ failure # None /\ failure.Err # ErrWriteState) => stateFile = pre.saved

\* kubeconfig.Sync failed after awsconfig.Sync had rewritten the profile
\* store: the State file is as it was
C36_WitnessKubeFails ==
  /\ pc = "returned"
  /\ failure # None
  /\ failure.Err = ErrSyncKube
  /\ awsFile # pre.aws
  /\ kubeFile = pre.kube
  /\ pre.saved # None
  /\ stateFile = pre.saved

\* the State write failed after its first block: both stores are rewritten
\* and the State file holds the beginning of the new document
C36_WitnessWriteFails ==
  /\ pc = "returned"
  /\ failure # None
  /\ failure.Err = ErrWriteState
  /\ pre.saved # None
  /\ Len(stateFile.Content) = 1
  /\ awsFile # pre.aws
  /\ kubeFile # pre.kube

(***************************************************************************)
(* App.RunSync over the stores with three roles of one account whose       *)
(* names differ in case or by a "-2", each with a cluster                  *)
(***************************************************************************)

CrossClusterPool ==
  { ClusterAccess(Id1, Acme, RoleAdminUpper, RegionUs1, ClusterWebUpper, Arn1, Endpoint1, CertA),
    ClusterAccess(Id1, Acme, RoleAdminLower, RegionUs1, ClusterWebLower, Arn2, Endpoint2, CertA),
    ClusterAccess(Id1, Acme, RoleAdmin2, RegionUs1, ClusterDev, Arn2, Endpoint2, CertRaw) }

MaxCrossRoles == 3
MaxCrossRuns == 2

\* the clusters of the pool listAllClusters finds through the listed roles
crossClustersOf(roles) ==
  {c \in CrossClusterPool :
     \E i \in 1..Len(roles) : roles[i].AccountID = c.AccountID /\ roles[i].RoleName = c.RoleName}

\* what Discover can return: the roles listed and every cluster of theirs
CrossDiscovered ==
  UNION { { sortInventory([GeneratedAt |-> t, Roles |-> roles, Clusters |-> clusters]) :
              t \in GeneratedAtValues,
              clusters \in {c \in DistinctSeqsUpTo(crossClustersOf(roles), Len(roles)) :
                              Len(c) = Cardinality(crossClustersOf(roles))} } :
          roles \in DistinctSeqsUpTo(RolePool, MaxCrossRoles) }

crossStates ==
  [k \in Configs \X CrossDiscovered |-> BuildState(k[1], k[2])] @@ <<>>

\* RunSync up to the State: loadConfig, Discover returning inv, BuildState
CrossBeginSync(dryRun, inv) ==
  /\ pc = "idle"
  /\ spawned < MaxCrossRuns
  /\ spawned' = spawned + 1
  /\ pc' = "built"
  /\ inventory' = inv
  /\ state' = crossStates[<<config, inv>>]
  /\ run' = [DryRun |-> dryRun,
             Repeat |-> run # None /\ ~run.DryRun /\ inventory = inv,
             pages |-> <<>>,
             outcomes |-> <<>>,
             NS   |-> ZeroNsResult,
             AWS  |-> ZeroSyncResult,
             Kube |-> ZeroKubeResult]
  /\ pre' = [aws |-> awsFile, kube |-> kubeFile, saved |-> stateFile]
  /\ failure' = None
  /\ UNCHANGED <<config, prevInventory, prevState, world, awsFile, kubeFile, stateFile>>
  /\ UNCHANGED <<args, returned, cancelled, workers, collected>>

NextCross ==
  \/ \E dryRun \in BOOLEAN, inv \in CrossDiscovered : CrossBeginSync(dryRun, inv)
  \/ EnrichStep
  \/ AwsSyncStep
  \/ KubeSyncStep
  \/ SaveStateStep

SpecCross == Init /\ [][NextCross]_vars

\* the profile an owned user entry hands to the credential tool: the
\* argument after "--profile"
execProfile(auth) == auth.Exec.Args[4]

\* the section of the profile store for the profile of cluster record c names
\* the account and the role of c
profileMatches(disk, c, profile) ==
  /\ disk # None
  /\ (ProfileSpace \o profile) \in DOMAIN disk.Sections
  /\ LET sec == disk.Sections[ProfileSpace \o profile]
     IN  /\ MapGet(sec, "sso_account_id", <<>>) = c.AccountID
         /\ MapGet(sec, "sso_role_name", <<>>) = c.RoleName

\* C37: after a non-dry-run RunSync that returned no error, every context
\* of the cluster-client store whose name starts with "rift-" has a user
\* entry whose "--profile" argument names a "profile <p>" section of the
\* profile store, and that section has the account ID and the role name of
\* each cluster record of the State with that context
C37_CrossStoreConsistency ==
  (syncDone /\ failure = None) =>
    \A ctx \in {x \in DOMAIN kubeFile.Contexts : HasPrefix(x, RiftDash)} :
      /\ ctx \in DOMAIN kubeFile.AuthInfos
      /\ kubeFile.AuthInfos[ctx].Exec # Nil
      /\ \A i \in 1..Len(state.Clusters) :
           state.Clusters[i].KubeContext = ctx =>
             profileMatches(awsFile, state.Clusters[i], execProfile(kubeFile.AuthInfos[ctx]))

\* no two roles of the State have the same profile name
profilesDistinct ==
  \A i, j \in 1..Len(state.Roles) :
    state.Roles[i].AWSProfile = state.Roles[j].AWSProfile => i = j

\* what holds: the same, for the syncs whose State has no profile name twice
C37_ConsistentUnlessProfilesCollide ==
  (syncDone /\ failure = None /\ profilesDistinct) =>
    \A ctx \in {x \in DOMAIN kubeFile.Contexts : HasPrefix(x, RiftDash)} :
      /\ ctx \in DOMAIN kubeFile.AuthInfos
      /\ kubeFile.AuthInfos[ctx].Exec # Nil
      /\ \E i \in 1..Len(state.Clusters) : state.Clusters[i].KubeContext = ctx
      /\ \A i \in 1..Len(state.Clusters) :
           state.Clusters[i].KubeContext = ctx =>
             profileMatches(awsFile, state.Clusters[i], execProfile(kubeFile.AuthInfos[ctx]))

\* a sync of two roles with a cluster each that removed a stale owned
\* context has left two owned contexts with their profiles
C37_WitnessConsistent ==
  /\ syncDone
  /\ failure = None
  /\ profilesDistinct
  /\ Len(state.Clusters) = 2
  /\ run.Kube.RemovedContexts > 0
  /\ Cardinality({x \in DOMAIN kubeFile.Contexts : HasPrefix(x, RiftDash)}) = 2

(***************************************************************************)
(* The profile store at the time of the namespace probes                   *)
(***************************************************************************)

\* Enrich of the run has returned, having started a probe for cluster i
probeInvoked(i) ==
  /\ pc = "enriched"
  /\ config.DiscoverNamespaces
  /\ i \in 1..Len(state.Clusters)
  /\ probed(state.Clusters[i])

\* C38: when Enrich has invoked the credential tool for a cluster with
\* "--profile <p>", the profile store holds the section "profile <p>" with
\* the account ID and the role name of the cluster
C38_ProfileWrittenBeforeProbe ==
  \A i \in 1..Len(IF state = None THEN <<>> ELSE state.Clusters) :
    probeInvoked(i) =>
      profileMatches(awsFile, state.Clusters[i], state.Clusters[i].AWSProfile)

\* what holds: Enrich returns before awsconfig.Sync is called, so the probes
\* of a run see the profile store as the run found it
C38_ProbesSeeStoreAsFound ==
  (pc \in {"built", "enriched"}) => awsFile = pre.aws

\* the probes of a first sync ran with no profile store at all, and a probe
\* is taken to have answered
C38_FirstSyncProbesWithoutProfile ==
  /\ pc = "enriched"
  /\ config.DiscoverNamespaces
  /\ awsFile = None
  /\ run.NS.ClustersTried > 0

(***************************************************************************)
(* awsconfig.EnsureLegacyAuthProfile, as runAuthFlow calls it for an AWS   *)
(* CLI without --sso-session, and awsconfig.Sync applied in any order to   *)
(* one profile store                                                       *)
(***************************************************************************)

\* EnsureLegacyAuthProfile: the file it leaves and what it returns
EnsureLegacyAuthProfile(disk, cfg, dryRun) ==
  LET file    == loadINI(disk)
      created == legacyAuthProfile \notin DOMAIN file
      sec     == MapGet(file, legacyAuthProfile, EmptyMap)
      kvs     == << <<"sso_start_url", cfg.SSOStartURL>>,
                    <<"sso_region", cfg.SSORegion>>,
                    <<"output", Json>> >>
  IN  TheOnly({ [disk    |-> IF ~(created \/ r.changed) \/ dryRun THEN disk
                             ELSE [Sections |-> MapPut(file, legacyAuthProfile, r.section)],
                 changed |-> created \/ r.changed] :
                r \in {setKeys(sec, kvs, 3)} })

\* awsconfig.EnsureLegacyAuthProfile(awsConfigPath, cfg, false) of runAuthFlow
CallLegacyAuth(cfg) ==
  /\ pc = "idle"
  /\ config' = cfg
  /\ pre' = [aws |-> awsFile]
  /\ \E r \in {EnsureLegacyAuthProfile(awsFile, cfg, FALSE)} :
       /\ awsFile' = r.disk
       /\ run' = [op |-> "EnsureLegacyAuthProfile", DryRun |-> FALSE, changed |-> r.changed,
                  result |-> ZeroSyncResult]
  /\ UNCHANGED <<inventory, state, prevInventory, prevState, world, kubeFile, stateFile, pc, failure>>
  /\ UNCHANGED auxVars

\* awsconfig.Sync(awsConfigPath, cfg, st, dryRun) of RunSync
CallSyncAfterAuth(cfg, inv, dryRun) ==
  /\ pc = "idle"
  /\ config' = cfg
  /\ inventory' = inv
  /\ pre' = [aws |-> awsFile]
  /\ \E st \in {BuildState(cfg, inv)} :
     \E r \in {awsconfigSync(awsFile, cfg, st, dryRun)} :
       /\ state' = st
       /\ awsFile' = r.disk
       /\ run' = [op |-> "Sync", DryRun |-> dryRun, changed |-> r.result.Updated > 0,
                  result |-> r.result]
  /\ UNCHANGED <<prevInventory, prevState, world, kubeFile, stateFile, pc, failure>>
  /\ UNCHANGED auxVars

NextLegacy ==
  \/ \E cfg \in SessionConfigs : CallLegacyAuth(cfg)
  \/ \E cfg \in SessionConfigs, inv \in SessionInventories, dryRun \in BOOLEAN :
       CallSyncAfterAuth(cfg, inv, dryRun)

SpecLegacy == InitSession /\ [][NextLegacy]_vars

sectionsOf(disk) == IF disk = None THEN {} ELSE DOMAIN disk.Sections

\* the last call was a Sync over a store with the section of the legacy login
syncOverLegacy ==
  /\ run # None
  /\ run.op = "Sync"
  /\ legacyAuthProfile \in sectionsOf(pre.aws)

\* C39: after any awsconfig.Sync the profile store has no section
\* "profile rift-auth", and a Sync that found the section has counted it in
\* Removed
C39_LegacyProfileNeverSurvivesSync ==
  /\ (run # None /\ run.op = "Sync") => legacyAuthProfile \notin sectionsOf(awsFile)
  /\ syncOverLegacy => run.result.Removed >= 1

\* C39 as it holds: no generated profile is named rift-auth; a Sync that
\* finds the section counts it in Removed; one that is no dry run leaves the
\* store without it, Removed being the number of sections it deleted; a dry
\* run leaves the store, and the section in it, as they were
C39_LegacyProfileRemovedBySync ==
  /\ (run # None /\ run.op = "Sync") =>
       /\ \A i \in 1..Len(state.Roles) :
            ProfileSpace \o state.Roles[i].AWSProfile # legacyAuthProfile
       /\ ~run.DryRun => legacyAuthProfile \notin sectionsOf(awsFile)
       /\ run.DryRun => awsFile = pre.aws
  /\ syncOverLegacy =>
       /\ run.result.Removed >= 1
       /\ ~run.DryRun => run.result.Removed = Cardinality(sectionsOf(pre.aws) \ sectionsOf(awsFile))

\* a Sync that was no dry run, over a store that held the section of the
\* legacy login and no other stale profile, has removed it and added a profile
C39_Witness ==
  /\ syncOverLegacy
  /\ ~run.DryRun
  /\ run.result.Removed = 1
  /\ run.result.Added = 1
  /\ legacyAuthProfile \notin sectionsOf(awsFile)
  /\ sectionsOf(pre.aws) \ sectionsOf(awsFile) = {legacyAuthProfile}

\* a dry run over a store with the section has counted it and left it
C39_WitnessDryRun ==
  /\ syncOverLegacy
  /\ run.DryRun
  /\ run.result.Removed >= 1
  /\ legacyAuthProfile \in sectionsOf(awsFile)

(***************************************************************************)
(* App.RunSync with the soft failures of listAllClusters: each run lists   *)
(* the clusters of SyncClusterPool through its roles, and a role's         *)
(* credentials, a region's listing or a cluster's describe may fail        *)
(***************************************************************************)

\* what a role worker of listAllClusters can meet: getRoleCredentials fails,
\* or each region in turn has an outcome of listClustersForRegion
roleOutcomes(role, regions) ==
  {[creds |-> FALSE, regions |-> <<>>]}
  \cup { [creds |-> TRUE, regions |-> f] :
         f \in {g \in [1..Len(regions) ->
                         UNION {regionOutcomes(role, regions[k]) : k \in 1..Len(regions)}] :
                  \A k \in 1..Len(regions) : g[k] \in regionOutcomes(role, regions[k])} }

\* roleClusters of a worker after its first n regions
RECURSIVE roleClusters(_, _)
roleClusters(outcome, n) ==
  IF ~outcome.creds \/ n = 0 THEN <<>>
  ELSE roleClusters(outcome, n - 1) \o outcome.regions[n].found

\* the slice of listAllClusters after the workers of the first n roles
RECURSIVE allClusters(_, _)
allClusters(outcomes, n) ==
  IF n = 0 THEN <<>>
  ELSE allClusters(outcomes, n - 1) \o roleClusters(outcomes[n], Len(outcomes[n].regions))

\* the clusters of the listed roles that a soft failure kept out of the slice
lostClusters(roles, regions, outcomes) ==
  {c \in SyncClusterPool :
     /\ \E i \in 1..Len(roles), k \in 1..Len(regions) : c \in clustersIn(roles[i], regions[k])
     /\ c \notin Range(allClusters(outcomes, Len(outcomes)))}

\* the kinds of soft failure of a run
softKinds(outcomes) ==
  {"credentials" : i \in {j \in 1..Len(outcomes) : ~outcomes[j].creds}}
  \cup {"region" : i \in {j \in 1..Len(outcomes) :
                            \E k \in 1..Len(outcomes[j].regions) : outcomes[j].regions[k].err}}
  \cup {"describe" : i \in {j \in 1..Len(outcomes) :
                              \E k \in 1..Len(outcomes[j].regions) :
                                outcomes[j].regions[k].skipped > 0}}

\* what Discover can return: roles listed and clusters of the pool
SoftDiscovered ==
  { sortInventory([GeneratedAt |-> TheOnly(GeneratedAtValues), Roles |-> roles, Clusters |-> cs]) :
      roles \in DistinctSeqsUpTo(SyncRolePool, MaxSyncRoles),
      cs \in DistinctSeqsUpTo(SyncClusterPool, Cardinality(SyncClusterPool)) }

\* naming.BuildState on every input of a run, computed once
softStates ==
  [k \in Configs \X SoftDiscovered |-> BuildState(k[1], k[2])] @@ <<>>

\* RunSync up to the State: Discover lists roles, listAllClusters meets
\* outcomes, the Inventory is sorted and BuildState names it
SoftBeginSync(dryRun, roles, outcomes) ==
  /\ pc = "idle"
  /\ pc' = "built"
  /\ \E inv \in {sortInventory([GeneratedAt |-> TheOnly(GeneratedAtValues), Roles |-> roles,
                                Clusters |-> allClusters(outcomes, Len(outcomes))])} :
       /\ inventory' = inv
       /\ state' = softStates[<<config, inv>>]
  /\ args' = [lost  |-> lostClusters(roles, config.Regions, outcomes),
              soft  |-> softKinds(outcomes)]
  /\ run' = [DryRun |-> dryRun,
             Repeat |-> FALSE,
             pages |-> <<>>,
             outcomes |-> <<>>,
             NS   |-> ZeroNsResult,
             AWS  |-> ZeroSyncResult,
             Kube |-> ZeroKubeResult]
  /\ pre' = [aws |-> awsFile, kube |-> kubeFile, saved |-> stateFile]
  /\ failure' = None
  /\ UNCHANGED <<config, prevInventory, prevState, world, awsFile, kubeFile, stateFile>>
  /\ UNCHANGED <<returned, cancelled, spawned, workers, collected>>

\* what the workers of listAllClusters can meet, one outcome for each role
RECURSIVE workerOutcomes(_, _, _)
workerOutcomes(roles, regions, n) ==
  IF n = 0 THEN {<<>>}
  ELSE {Append(o, last) : o \in workerOutcomes(roles, regions, n - 1),
                          last \in roleOutcomes(roles[n], regions)}

\* the outcomes on every input of a run, computed once
softOutcomes ==
  [k \in Configs \X DistinctSeqsUpTo(SyncRolePool, MaxSyncRoles) |->
     workerOutcomes(k[2], k[1].Regions, Len(k[2]))] @@ <<>>

NextSoft ==
  \/ \E dryRun \in BOOLEAN, roles \in DistinctSeqsUpTo(SyncRolePool, MaxSyncRoles) :
       \E outcomes \in softOutcomes[<<config, roles>>] :
         SoftBeginSync(dryRun, roles, outcomes)
  \/ EnrichStep
  \/ AwsSyncStep
  \/ KubeSyncStep
  \/ SaveStateStep

SpecSoft == Init /\ [][NextSoft]_vars

\* the record is the record of the cluster
recordOf(record, cluster) ==
  /\ record.AccountID = cluster.AccountID
  /\ record.RoleName = cluster.RoleName
  /\ record.Region = cluster.Region
  /\ record.ClusterName = cluster.ClusterName

\* the contexts the last sync that wrote created for the cluster, by the
\* State it saved, as far as the run found them in the cluster-client store
earlierContexts(cluster) ==
  IF pre.saved = None \/ pre.kube = None THEN {}
  ELSE {pre.saved.Clusters[i].KubeContext :
          i \in {j \in 1..Len(pre.saved.Clusters) : recordOf(pre.saved.Clusters[j], cluster)}}
       \cap DOMAIN pre.kube.Contexts

\* the contexts an earlier sync created for the clusters this run lost
lostContexts == UNION {earlierContexts(c) : c \in args.lost}

\* kubeconfig.Sync of a run with a soft failure has returned
softSyncDone ==
  /\ pc = "kubeDone"
  /\ args # None
  /\ args.soft # {}

\* C40: after kubeconfig.Sync of a run that is no dry run and met a soft
\* failure, the clusters the failure affected are absent from the State, the
\* contexts an earlier sync created for them are gone from the cluster-client
\* store with their cluster and user entries, and RemovedContexts counts them
C40_SoftFailureDeletesContexts ==
  (softSyncDone /\ ~run.DryRun) =>
    /\ \A c \in args.lost : \A i \in 1..Len(state.Clusters) : ~recordOf(state.Clusters[i], c)
    /\ \A name \in lostContexts :
         /\ name \notin DOMAIN kubeFile.Contexts
         /\ name \notin DOMAIN kubeFile.Clusters
         /\ name \notin DOMAIN kubeFile.AuthInfos
    /\ run.Kube.RemovedContexts >= Cardinality(lostContexts)

\* the names BuildState gives the contexts of the State
stateContexts == {state.Clusters[i].KubeContext : i \in 1..Len(state.Clusters)}

\* what holds of a run with a soft failure: the affected clusters are absent
\* from the State; a context an earlier sync created for one of them is gone
\* with its cluster and user entries unless BuildState gave its name to a
\* cluster of this run; RemovedContexts is the number of contexts that left
\* the store, and a dry run leaves the store as it was
C40_SoftFailureDeletesUnnamedContexts ==
  softSyncDone =>
    /\ \A c \in args.lost : \A i \in 1..Len(state.Clusters) : ~recordOf(state.Clusters[i], c)
    /\ run.DryRun => kubeFile = pre.kube
    /\ ~run.DryRun =>
         /\ \A name \in lostContexts \ stateContexts :
              /\ name \notin DOMAIN kubeFile.Contexts
              /\ name \notin DOMAIN kubeFile.Clusters
              /\ name \notin DOMAIN kubeFile.AuthInfos
         /\ \A name \in lostContexts \cap stateContexts :
              \E i \in 1..Len(state.Clusters) :
                /\ state.Clusters[i].KubeContext = name
                /\ kubeFile.AuthInfos[name] = desiredUser(state.Clusters[i])
         /\ pre.kube # None =>
              run.Kube.RemovedContexts =
                Cardinality(DOMAIN pre.kube.Contexts \ DOMAIN kubeFile.Contexts)

\* a sync lost a cluster to a soft failure and deleted the one context an
\* earlier sync had created for it
C40_WitnessDeleted ==
  /\ softSyncDone
  /\ ~run.DryRun
  /\ lostContexts # {}
  /\ lostContexts \cap stateContexts = {}
  /\ lostContexts \cap DOMAIN kubeFile.Contexts = {}
  /\ run.Kube.RemovedContexts = Cardinality(lostContexts)

\* a sync lost the cluster of one role to a credentials failure, and the
\* context an earlier sync had created for it is still in the store, now
\* with the user entry of the same cluster under another role
C40_WitnessContextKept ==
  /\ softSyncDone
  /\ ~run.DryRun
  /\ "credentials" \in args.soft
  /\ \E name \in lostContexts : name \in DOMAIN kubeFile.Contexts

====
